---- MODULE Spec2Model ----
(***************************************************************************)
(* The Astro Coach dashboard (src/app/streamlit_app_v2.py and              *)
(* src/app/streamlit_app_v3.py) as a state machine.  A Streamlit script is *)
(* re-executed from top to bottom after every widget interaction; one      *)
(* action of this module is one interaction followed by the whole script   *)
(* run it triggers.                                                        *)
(*                                                                         *)
(* Number representation:                                                  *)
(*   CSV text           a coefficient as written in the CSV is given as an *)
(*                      integer number of thousandths (400 is 0.40)        *)
(*   coefficient,       Python floats (IEEE 754 binary64): records         *)
(*   uplift_factor,     [s, m, e] standing for s * m * 2^e with s the sign *)
(*   simulated_impact,  (-1, 0, 1) and m a 53-bit significand, every       *)
(*   sums, net effect   operation rounded to nearest, ties to even         *)
(*   uplift             the slider's integer percent   (20 is 20%)         *)
(*   confidence         integer number of tenths of a percent (600 = 60.0) *)
(* 0.0 and -0.0, which Python compares equal, are one value here; the      *)
(* exponent range is not modelled (no value of the program comes near its  *)
(* ends).  The argument of round(..., 1) in compute_confidence is never    *)
(* within float error of a rounding boundary, so its result is computed    *)
(* exactly.                                                                *)
(***************************************************************************)
EXTENDS Integers, Sequences, FiniteSets, TLC

VARIABLES version,             \* which script runs: "v2" or "v3"
          csv,                 \* the two signal files as read_csv parses them
          feature_importance,  \* the frame load_data() hands the next run
          churn_importance,    \* the same for churn_feature_importance.csv
          section,             \* value of the sidebar radio "Select View"
          multiselect,         \* value of the rendered simulator's multiselect
          slider,              \* value of the rendered simulator's uplift slider
          kept,                \* state the session holds for the multiselects
                               \* that the last run did not draw
          top_n,               \* value of the "top drivers" slider of
                               \* Conversion Intelligence
          view,                \* what the last script run computed and rendered
          conf                 \* last direct call of compute_confidence

vars == <<version, csv, kept, top_n, feature_importance, churn_importance, section,
          multiselect, slider, view, conf>>

----------------------------------------------------------------------------
(* Bounds of the model *)

\* rows of a varied signals table
MaxRows == 2
\* largest num_features handed to compute_confidence directly
MaxN == 8
\* rows of the largest wide signals table
MaxWide == 10

(* Program constants *)

\* st.slider(..., 5, 50, 15, 5)
SliderMin == 5
SliderMax == 50
SliderDefault == 15
SliderStep == 5
\* default=all_events.head(3)
DefaultCount == 3
\* top_n = st.slider("Top drivers to analyze", 5, 15, 10)
TopNMin == 5
TopNMax == 15
TopNDefault == 10
\* top_churn = churn_importance.sort_values(...).head(10)
ChurnTopCount == 10
\* coverage = min(1.0, num_features / 5)
TotalPossible == 5
\* def compute_confidence(num_features, data_size=1000), data_size / 5000
DefaultDataSize == 1000
FullDataSize == 5000

Versions == {"v2", "v3"}

Sections == <<"Executive Overview", "Market Trend Intelligence",
              "Conversion Intelligence", "Targeting Simulator",
              "Churn Early Warning", "Event Impact Simulator",
              "Churn Impact Simulator">>

Range(s) == {s[i] : i \in 1..Len(s)}

Min(a, b) == IF a <= b THEN a ELSE b

UpliftValues == {u \in SliderMin..SliderMax : (u - SliderMin) % SliderStep = 0}

----------------------------------------------------------------------------
(* Python floats.  Naturals of any size are little-endian sequences of      *)
(* limbs below Base with no zero top limb; a dyadic is s * m * 2^e with m   *)
(* such a natural; a float is a dyadic whose m has exactly Precision bits.  *)

\* significand bits of a Python float (IEEE 754 binary64)
Precision == 53
\* bits per limb of a significand
LimbBits == 14

Base == 2 ^ LimbBits

RECURSIVE BigOf(_)
BigOf(n) == IF n = 0 THEN <<>> ELSE <<n % Base>> \o BigOf(n \div Base)

RECURSIVE Trim(_)
Trim(a) ==
    IF a # <<>> /\ a[Len(a)] = 0 THEN Trim(SubSeq(a, 1, Len(a) - 1)) ELSE a

Limb(a, i) == IF i <= Len(a) THEN a[i] ELSE 0

RECURSIVE AddFrom(_, _, _, _)
AddFrom(a, b, i, carry) ==
    IF i > Len(a) /\ i > Len(b)
    THEN (IF carry = 0 THEN <<>> ELSE <<carry>>)
    ELSE LET t == Limb(a, i) + Limb(b, i) + carry
         IN  <<t % Base>> \o AddFrom(a, b, i + 1, t \div Base)

BigAdd(a, b) == AddFrom(a, b, 1, 0)

RECURSIVE SubFrom(_, _, _, _)
SubFrom(a, b, i, borrow) ==
    IF i > Len(a) THEN <<>>
    ELSE LET t == a[i] - Limb(b, i) - borrow
         IN  IF t < 0 THEN <<t + Base>> \o SubFrom(a, b, i + 1, 1)
             ELSE <<t>> \o SubFrom(a, b, i + 1, 0)

\* a - b for a >= b
BigSub(a, b) == Trim(SubFrom(a, b, 1, 0))

RECURSIVE CmpFrom(_, _, _)
CmpFrom(a, b, i) ==
    IF i = 0 THEN 0
    ELSE IF a[i] < b[i] THEN -1
    ELSE IF a[i] > b[i] THEN 1
    ELSE CmpFrom(a, b, i - 1)

\* -1, 0, 1 as a < b, a = b, a > b
BigCmp(a, b) ==
    IF Len(a) < Len(b) THEN -1
    ELSE IF Len(a) > Len(b) THEN 1
    ELSE CmpFrom(a, b, Len(a))

RECURSIVE MulSmallFrom(_, _, _, _)
MulSmallFrom(a, k, i, carry) ==
    IF i > Len(a) THEN (IF carry = 0 THEN <<>> ELSE <<carry>>)
    ELSE LET t == a[i] * k + carry
         IN  <<t % Base>> \o MulSmallFrom(a, k, i + 1, t \div Base)

\* a * k for 0 <= k <= Base
BigMulSmall(a, k) == IF k = 0 THEN <<>> ELSE MulSmallFrom(a, k, 1, 0)

ShiftLimbs(a, n) == IF a = <<>> THEN <<>> ELSE [i \in 1..n |-> 0] \o a

RECURSIVE MulFrom(_, _, _)
MulFrom(a, b, j) ==
    IF j > Len(b) THEN <<>>
    ELSE BigAdd(ShiftLimbs(BigMulSmall(a, b[j]), j - 1), MulFrom(a, b, j + 1))

\* column k of the schoolbook product: the sum of a[i] * b[k + 1 - i], i..hi
RECURSIVE ColumnFrom(_, _, _, _, _)
ColumnFrom(a, b, k, i, hi) ==
    IF i > hi THEN 0
    ELSE a[i] * b[k + 1 - i] + ColumnFrom(a, b, k, i + 1, hi)

RECURSIVE MulColumns(_, _, _, _)
MulColumns(a, b, k, carry) ==
    IF k >= Len(a) + Len(b) THEN (IF carry = 0 THEN <<>> ELSE <<carry>>)
    ELSE LET lo == IF k > Len(b) THEN k + 1 - Len(b) ELSE 1
             t == ColumnFrom(a, b, k, lo, Min(k, Len(a))) + carry
         IN  <<t % Base>> \o MulColumns(a, b, k + 1, t \div Base)

\* a * b; by columns while a column sum stays below 2^31
BigMul(a, b) ==
    IF a = <<>> \/ b = <<>> THEN <<>>
    ELSE IF Min(Len(a), Len(b)) < 8 THEN MulColumns(a, b, 1, 0)
    ELSE MulFrom(a, b, 1)

\* a * 2^n
BigShl(a, n) ==
    IF n = 0 THEN a
    ELSE IF n % LimbBits = 0 THEN ShiftLimbs(a, n \div LimbBits)
    ELSE ShiftLimbs(BigMulSmall(a, 2 ^ (n % LimbBits)), n \div LimbBits)

RECURSIVE DivSmallFrom(_, _, _, _)
DivSmallFrom(a, d, i, rem) ==
    IF i = 0 THEN <<>>
    ELSE LET t == rem * Base + a[i]
         IN  DivSmallFrom(a, d, i - 1, t % d) \o <<t \div d>>

\* floor(a / d) for 0 < d <= Base
BigDivSmall(a, d) == Trim(DivSmallFrom(a, d, Len(a), 0))

RECURSIVE ModSmallFrom(_, _, _, _)
ModSmallFrom(a, d, i, rem) ==
    IF i = 0 THEN rem ELSE ModSmallFrom(a, d, i - 1, (rem * Base + a[i]) % d)

BigModSmall(a, d) == ModSmallFrom(a, d, Len(a), 0)

\* floor(a / 2^n)
BigShr(a, n) ==
    LET k == n \div LimbBits
    IN  IF k >= Len(a) THEN <<>>
        ELSE IF n % LimbBits = 0 THEN SubSeq(a, k + 1, Len(a))
        ELSE BigDivSmall(SubSeq(a, k + 1, Len(a)), 2 ^ (n % LimbBits))

RECURSIVE SmallBitLen(_)
SmallBitLen(n) == IF n = 0 THEN 0 ELSE 1 + SmallBitLen(n \div 2)

BitLen(a) ==
    IF a = <<>> THEN 0
    ELSE (Len(a) - 1) * LimbBits + SmallBitLen(a[Len(a)])

IsOdd(a) == a # <<>> /\ a[1] % 2 = 1

\* bit n of a (bit 0 is the lowest), for n < BitLen(a)
Bit(a, n) == (a[(n \div LimbBits) + 1] \div 2 ^ (n % LimbBits)) % 2

\* some bit of a below bit n is set, for n < BitLen(a)
AnyBitBelow(a, n) ==
    \/ \E i \in 1..(n \div LimbBits) : a[i] # 0
    \/ a[(n \div LimbBits) + 1] % 2 ^ (n % LimbBits) # 0

DyZero == [s |-> 0, m |-> <<>>, e |-> 0]

Dy(s, m, e) ==
    IF m = <<>> \/ s = 0 THEN DyZero ELSE [s |-> s, m |-> m, e |-> e]

DyOfInt(n) ==
    IF n = 0 THEN DyZero
    ELSE IF n < 0 THEN Dy(-1, BigOf(-n), 0)
    ELSE Dy(1, BigOf(n), 0)

DyNeg(a) == Dy(-a.s, a.m, a.e)

DyAbs(a) == Dy(a.s * a.s, a.m, a.e)

\* a * 2^k
DyScale(a, k) == Dy(a.s, a.m, a.e + k)

\* the significand of a at exponent e <= a.e
AtExp(a, e) == BigShl(a.m, a.e - e)

DyAdd(a, b) ==
    IF a.s = 0 THEN b
    ELSE IF b.s = 0 THEN a
    ELSE LET e == Min(a.e, b.e)
             x == AtExp(a, e)
             y == AtExp(b, e)
             c == BigCmp(x, y)
         IN  IF a.s = b.s THEN Dy(a.s, BigAdd(x, y), e)
             ELSE IF c = 0 THEN DyZero
             ELSE IF c > 0 THEN Dy(a.s, BigSub(x, y), e)
             ELSE Dy(b.s, BigSub(y, x), e)

DySub(a, b) == DyAdd(a, DyNeg(b))

DyMul(a, b) == Dy(a.s * b.s, BigMul(a.m, b.m), a.e + b.e)

\* sign of a - b
DyCmp(a, b) == DySub(a, b).s

\* the float nearest to the dyadic a, ties to the even significand
Round53(a) ==
    IF a.s = 0 THEN DyZero
    ELSE LET len == BitLen(a.m)
         IN  IF len <= Precision
             THEN Dy(a.s, BigShl(a.m, Precision - len),
                     a.e - (Precision - len))
             ELSE LET drop == len - Precision
                      q == BigShr(a.m, drop)
                      up == /\ Bit(a.m, drop - 1) = 1
                            /\ AnyBitBelow(a.m, drop - 1) \/ IsOdd(q)
                      q1 == IF up THEN BigAdd(q, <<1>>) ELSE q
                  IN  IF BitLen(q1) > Precision
                      THEN Dy(a.s, BigShr(q1, 1), a.e + drop + 1)
                      ELSE Dy(a.s, q1, a.e + drop)

\* x + y
FAdd(a, b) == Round53(DyAdd(a, b))

\* x * y
FMul(a, b) == Round53(DyMul(a, b))

\* n / d for integers n and 0 < d below Base
FDiv(n, d) ==
    IF n = 0 THEN DyZero
    ELSE LET k == Precision + SmallBitLen(d) + 2
             num == BigShl(BigOf(IF n < 0 THEN -n ELSE n), k)
             q == BigDivSmall(num, d)
             sticky == IF BigModSmall(num, d) = 0 THEN 0 ELSE 1
         IN  Round53(Dy(IF n < 0 THEN -1 ELSE 1,
                        BigAdd(BigMulSmall(q, 2), BigOf(sticky)), -(k + 1)))

\* the float of an integer literal
FloatOfInt(n) == Round53(DyOfInt(n))

\* the float64 read_csv makes of a decimal with up to three places
FloatOfDecimal(c) == FDiv(c, 1000)

\* x > 0, x < 0
IsPositive(x) == x.s = 1

IsNegative(x) == x.s = -1

\* -1, 0, 1 as x < y, x = y, x > y, for floats
FloatCmp(a, b) ==
    IF a.s # b.s THEN (IF a.s < b.s THEN -1 ELSE 1)
    ELSE IF a.s = 0 THEN 0
    ELSE IF a.e # b.e THEN (IF a.e < b.e THEN -a.s ELSE a.s)
    ELSE a.s * BigCmp(a.m, b.m)

\* the integer held by a few limbs (below 2^31)
RECURSIVE SmallOf(_)
SmallOf(a) == IF a = <<>> THEN 0 ELSE a[1] + Base * SmallOf(Tail(a))

\* rint(y): the integer nearest to the float y, ties to the even integer
rint(y) ==
    IF y.s = 0 THEN 0
    ELSE IF y.e >= 0 THEN y.s * SmallOf(BigShl(y.m, y.e))
    ELSE IF -y.e > BitLen(y.m) THEN 0
    ELSE y.s * (SmallOf(BigShr(y.m, -y.e))
                + (IF /\ Bit(y.m, -y.e - 1) = 1
                      /\ \/ AnyBitBelow(y.m, -y.e - 1)
                         \/ IsOdd(BigShr(y.m, -y.e))
                   THEN 1 ELSE 0))

\* round(x, ndigits) of the numpy.float64 that Series.sum() returns: numpy
\* multiplies by 10^ndigits in floating point, takes rint and divides by
\* 10^ndigits; the value is held as the integer that rint returned (the
\* count of units of 10^-ndigits)
round(x, ndigits) == rint(FMul(x, FloatOfInt(10 ^ ndigits)))

----------------------------------------------------------------------------
(* The data: the two signals tables read by load_data *)

\* feature names of a varied table, by CSV row
Features == <<"paywall_view", "calendar_select", "app_open", "kundli_view",
              "chat_open">>

\* coefficients a varied table draws from (CSV text, thousandths)
Coefs == {-100, 0, 250}

\* a row as read_csv loads it
Row(f, c) == [feature |-> f, coefficient |-> FloatOfDecimal(c)]

\* tables of 1..MaxRows rows with unique names, in any coefficient order
Tables ==
    UNION {{[i \in 1..n |-> Row(Features[i], cs[i])] : cs \in [1..n -> Coefs]}
           : n \in 1..MaxRows}

\* a conversion table: the spec's example and one more negative signal
RefFeatureImportance ==
    <<Row("paywall_view", 400), Row("calendar_select", 250),
      Row("app_open", -100), Row("notification_dismiss", -300)>>

\* a churn table holding the spec's example row
RefChurnImportance ==
    <<Row("support_tickets", 0), Row("chat_messages", -300),
      Row("inactivity_days", 500), Row("sessions_per_week", -200)>>

\* every feature name of some table
AllFeatures ==
    Range(Features)
    \cup Range([i \in 1..Len(RefFeatureImportance) |->
                   RefFeatureImportance[i].feature])
    \cup Range([i \in 1..Len(RefChurnImportance) |->
                   RefChurnImportance[i].feature])

\* the tables of the spec's examples
ExampleSignals == SubSeq(RefFeatureImportance, 1, 3)

ExampleChurnSignals == <<Row("inactivity_days", 500)>>

\* the data sets a session may have loaded: the two reference tables, the
\* two example tables, or a varied table next to the first row of the other
\* reference table
Datasets ==
    {[fi |-> RefFeatureImportance, ci |-> RefChurnImportance],
     [fi |-> ExampleSignals, ci |-> ExampleChurnSignals]}
    \cup {[fi |-> t, ci |-> SubSeq(RefChurnImportance, 1, 1)] : t \in Tables}
    \cup {[fi |-> SubSeq(RefFeatureImportance, 1, 1), ci |-> t] : t \in Tables}

----------------------------------------------------------------------------
(* compute_confidence *)

\* Python's round(x, 1) * 10 for x = num / den >= 0: nearest, ties to even
RoundHalfEven(num, den) ==
    LET q == num \div den
        r == num % den
    IN  IF 2 * r > den THEN q + 1
        ELSE IF 2 * r < den THEN q
        ELSE IF q % 2 = 0 THEN q ELSE q + 1

\* variant without the cap (used only to test the properties below)
Coverage_Uncapped(num_features) == num_features

\* variant whose cap is one signal late (used only to test the properties
\* below)
Coverage_CapLate(num_features) == Min(TotalPossible + 1, num_features)

\* min(1.0, num_features / 5), as the numerator over TotalPossible
Coverage(num_features) == Min(TotalPossible, num_features)

\* variant with the v2 weights (used only to test the properties below)
compute_confidence_v3_Weights64(num_features) ==
    LET coverage == Coverage(num_features)
    IN  RoundHalfEven((6 * TotalPossible + 4 * coverage) * 1000,
                      10 * TotalPossible)

\* v3: round((0.5 + 0.5 * coverage) * 100, 1), in tenths of a percent
compute_confidence_v3(num_features) ==
    LET coverage == Coverage(num_features)
    IN  RoundHalfEven((5 * TotalPossible + 5 * coverage) * 1000,
                      10 * TotalPossible)

\* v2: base = min(1.0, data_size / 5000);
\*     round((0.6 * base + 0.4 * coverage) * 100, 1), in tenths of a percent
compute_confidence_v2(num_features, data_size) ==
    LET base == Min(FullDataSize, data_size)
        coverage == Coverage(num_features)
    IN  RoundHalfEven((6 * base * TotalPossible + 4 * coverage * FullDataSize)
                          * 100,
                      TotalPossible * FullDataSize)

\* thresholds of the confidence guide (percent)
ModerateFrom == 40
HighFrom == 70

\* variant with a strict upper threshold (used only to test the properties
\* below)
ConfidenceGuide_v2_Strict(confidence) ==
    IF confidence > 10 * HighFrom THEN "high"
    ELSE IF confidence >= 10 * ModerateFrom THEN "moderate"
    ELSE "low"

\* variant whose moderate band includes the upper threshold (used only to
\* test the properties below)
ConfidenceGuide_v3_Inclusive(confidence) ==
    IF confidence < 10 * ModerateFrom THEN "low"
    ELSE IF confidence <= 10 * HighFrom THEN "moderate"
    ELSE "high"

\* v3: if confidence < 40 ... elif confidence < 70 ... else ...
ConfidenceGuide_v3(confidence) ==
    IF confidence < 10 * ModerateFrom THEN "low"
    ELSE IF confidence < 10 * HighFrom THEN "moderate"
    ELSE "high"

\* v2: if confidence >= 70 ... elif confidence >= 40 ... else ...
ConfidenceGuide_v2(confidence) ==
    IF confidence >= 10 * HighFrom THEN "high"
    ELSE IF confidence >= 10 * ModerateFrom THEN "moderate"
    ELSE "low"

\* the caption a simulator shows under the confidence
ConfidenceGuide(v, confidence) ==
    IF v = "v2" THEN ConfidenceGuide_v2(confidence)
    ELSE ConfidenceGuide_v3(confidence)

\* variant that calls v2 with the full data size (used only to test the
\* properties below)
compute_confidence_FullData(v, num_features) ==
    IF v = "v2" THEN compute_confidence_v2(num_features, FullDataSize)
    ELSE compute_confidence_v3(num_features)

\* the call made by the simulators: len(selected) and, in v2, the default
compute_confidence(v, num_features) ==
    IF v = "v2" THEN compute_confidence_v2(num_features, DefaultDataSize)
    ELSE compute_confidence_v3(num_features)

----------------------------------------------------------------------------
(* Data-frame operations used by the simulators *)

\* variant that keeps the CSV order (used only to test the properties below)
sort_values_CsvOrder(df) == df

\* df.sort_values(by="coefficient", ascending=False); ties keep CSV order
sort_values(df) ==
    LET before(i, j) ==
            \/ FloatCmp(df[i].coefficient, df[j].coefficient) > 0
            \/ df[i].coefficient = df[j].coefficient /\ i < j
        rank(i) == Cardinality({j \in 1..Len(df) : before(j, i)}) + 1
    IN  [p \in 1..Len(df) |->
            df[CHOOSE i \in 1..Len(df) : rank(i) = p]]

\* df["feature"].tolist()
FeatureList(df) == [i \in 1..Len(df) |-> df[i].feature]

\* df.head(n)
head(df, n) == SubSeq(df, 1, Min(n, Len(df)))

\* df[df["feature"].isin(selected)].copy()
IsIn(row, selected) == row.feature \in Range(selected)

\* variant that keeps every row (used only to test the properties below)
isin_NoFilter(df, selected) == df

\* variant that lists the rows in click order (used only to test the
\* properties below)
isin_ClickOrder(df, selected) ==
    LET names == SelectSeq(selected,
                           LAMBDA f : \E i \in 1..Len(df) : df[i].feature = f)
    IN  [k \in 1..Len(names) |->
            df[CHOOSE i \in 1..Len(df) : df[i].feature = names[k]]]

isin(df, selected) == SelectSeq(df, LAMBDA row : IsIn(row, selected))

RECURSIVE SumFrom(_, _, _)
SumFrom(s, i, acc) ==
    IF i > Len(s) THEN acc ELSE SumFrom(s, i + 1, FAdd(acc, s[i]))

\* accumulator j of numpy's unrolled loop over the first m values of s:
\* s[j] + s[j + 8] + s[j + 16] + ...
RECURSIVE Lane(_, _, _, _)
Lane(s, m, i, acc) ==
    IF i > m THEN acc ELSE Lane(s, m, i + 8, FAdd(acc, s[i]))

\* numpy's pairwise summation of a float64 array: fewer than 8 values are
\* added from the first down; up to 128 values go to 8 accumulators that are
\* combined as ((r1 + r2) + (r3 + r4)) + ((r5 + r6) + (r7 + r8)), and the
\* values past the last multiple of 8 are added to the result; a longer
\* array is split at the multiple of 8 at or below its middle
RECURSIVE PairwiseSum(_)
PairwiseSum(s) ==
    IF Len(s) < 8 THEN SumFrom(s, 1, DyZero)
    ELSE IF Len(s) <= 128
    THEN SumFrom(s, Len(s) - (Len(s) % 8) + 1,
                 FAdd(FAdd(FAdd(Lane(s, Len(s) - (Len(s) % 8), 9, s[1]),
                                Lane(s, Len(s) - (Len(s) % 8), 10, s[2])),
                           FAdd(Lane(s, Len(s) - (Len(s) % 8), 11, s[3]),
                                Lane(s, Len(s) - (Len(s) % 8), 12, s[4]))),
                      FAdd(FAdd(Lane(s, Len(s) - (Len(s) % 8), 13, s[5]),
                                Lane(s, Len(s) - (Len(s) % 8), 14, s[6])),
                           FAdd(Lane(s, Len(s) - (Len(s) % 8), 15, s[7]),
                                Lane(s, Len(s) - (Len(s) % 8), 16, s[8])))))
    ELSE FAdd(PairwiseSum(SubSeq(s, 1, (Len(s) \div 2)
                                        - ((Len(s) \div 2) % 8))),
              PairwiseSum(SubSeq(s, (Len(s) \div 2)
                                    - ((Len(s) \div 2) % 8) + 1, Len(s))))

\* Series.sum() of a float column: numpy's sum of its values, 0.0 when empty
SumSeq(s) == PairwiseSum(s)

ImpactColumn(df) == [i \in 1..Len(df) |-> df[i].simulated_impact]

\* uplift_factor = uplift / 100
UpliftFactor(uplift) == FDiv(uplift, 100)

\* variants of the impact formulas (used only to test the properties below)
EventImpact_Abs(coefficient, uplift_factor) ==
    FMul(DyAbs(coefficient), uplift_factor)

EventImpact_Compound(coefficient, uplift_factor) ==
    FMul(coefficient, FAdd(FloatOfInt(1), uplift_factor))

ChurnImpact_NoInvert(coefficient, uplift_factor) ==
    FMul(coefficient, uplift_factor)

\* Event: coefficient * uplift_factor
EventImpact(coefficient, uplift_factor) == FMul(coefficient, uplift_factor)

\* Churn: -1 * coefficient * uplift_factor
ChurnImpact(coefficient, uplift_factor) ==
    FMul(FMul(FloatOfInt(-1), coefficient), uplift_factor)

\* selected_df["simulated_impact"] = ...
WithImpact(df, direction, uplift_factor) ==
    [i \in 1..Len(df) |->
        [feature |-> df[i].feature,
         coefficient |-> df[i].coefficient,
         simulated_impact |->
            IF direction = "GROWTH"
            THEN EventImpact(df[i].coefficient, uplift_factor)
            ELSE ChurnImpact(df[i].coefficient, uplift_factor)]]

\* variants of the partition sums (used only to test the properties below)
PositiveSum_NoFilter(df) == SumSeq(ImpactColumn(df))

NegativeSum_CopyPaste(df) ==
    SumSeq(SelectSeq(ImpactColumn(df), LAMBDA x : IsPositive(x)))

\* selected_df[selected_df["simulated_impact"] > 0]["simulated_impact"].sum()
PositiveSum(df) ==
    SumSeq(SelectSeq(ImpactColumn(df), LAMBDA x : IsPositive(x)))

\* selected_df[selected_df["simulated_impact"] < 0]["simulated_impact"].sum()
NegativeSum(df) ==
    SumSeq(SelectSeq(ImpactColumn(df), LAMBDA x : IsNegative(x)))

\* variant that sums the negative impacts only (used only to test the
\* properties below)
TotalSum_NegativeOnly(df) == NegativeSum(df)

\* selected_df["simulated_impact"].sum()
TotalSum(df) == SumSeq(ImpactColumn(df))

----------------------------------------------------------------------------
(* The data frames of a run as objects *)

\* A name of the script refers to a frame object; two names may refer to
\* the same object, and a write through one of them is then seen through
\* the other.  env maps the names to positions of store.

\* the memory at the start of a section: the loaded table alone
Load(signals) == [env |-> ("signals" :> 1), store |-> <<signals>>]

\* the frame a name refers to
Frame(m, name) == m.store[m.env[name]]

\* name = <an expression that builds a frame>
NewObject(m, name, df) ==
    [env |-> (name :> (Len(m.store) + 1)) @@ m.env,
     store |-> Append(m.store, df)]

\* a write into the object a name refers to
WriteObject(m, name, df) ==
    [env |-> m.env, store |-> [m.store EXCEPT ![m.env[name]] = df]]

\* variant that sorts the source object itself and gives it a second name
\* (used only to test the properties below)
SortValues_InPlace(m, src, dst) ==
    [env |-> (dst :> m.env[src]) @@ m.env,
     store |-> [m.store EXCEPT ![m.env[src]] = sort_values(@)]]

\* dst = src.sort_values(by="coefficient", ascending=False): without
\* inplace=True the method returns a new frame and leaves src as it was
SortValues(m, src, dst) == NewObject(m, dst, sort_values(Frame(m, src)))

\* dst = src.sort_values(by="coefficient", ascending=False).head(n): the
\* first n rows of the sorted frame, as a new frame
SortHead(m, src, dst, n) ==
    NewObject(m, dst, head(sort_values(Frame(m, src)), n))

\* dst = src[src["feature"].isin(selected)].copy(): boolean indexing builds
\* a new frame and .copy() another one, which dst names
FilterCopy(m, src, dst, selected) ==
    NewObject(m, dst, isin(Frame(m, src), selected))

\* name["simulated_impact"] = ...: the column is added to the object
AssignImpact(m, name, direction, uplift_factor) ==
    WriteObject(m, name, WithImpact(Frame(m, name), direction, uplift_factor))

----------------------------------------------------------------------------
(* The script *)

IsSimulator(s) == s \in {"Event Impact Simulator", "Churn Impact Simulator"}

Direction(s) == IF s = "Event Impact Simulator" THEN "GROWTH"
                ELSE "RISK_REDUCTION"

\* the table a simulator section reads
SignalsOf(s, fi, ci) == IF s = "Event Impact Simulator" THEN fi ELSE ci

\* options / default of the simulator's multiselect
Options(signals) == FeatureList(sort_values(signals))

DefaultSelection(signals) ==
    FeatureList(head(sort_values(signals), DefaultCount))

\* the columns of a loaded table (tables have at least one row)
Columns(df) == DOMAIN df[1]

\* df.sort_values(by="coefficient") and df["feature"] raise KeyError when
\* the column is absent
HasColumns(df) == {"feature", "coefficient"} \subseteq Columns(df)

\* an uncaught exception: Streamlit shows it in place of the rest of the run
Failed(s) ==
    [section |-> s, halted |-> FALSE, error |-> "KeyError",
     rendered |-> <<"header", "exception">>]

\* variant in which the halted run still reaches the footer (used only to
\* test the properties below)
Halted_WithFooter(s, selected) ==
    [section |-> s, halted |-> TRUE,
     rendered |-> <<"header", "multiselect", "warning", "footer">>]

\* if not selected: st.warning(...); st.stop()
Halted(s, selected) ==
    [section |-> s, halted |-> TRUE,
     rendered |-> <<"header", "multiselect", "warning">>]

\* variant keyed on the rounded value shown in the metric (used only to
\* test the properties below)
InterpretNet_Rounded(net_effect) ==
    IF round(net_effect, 3) > 0 THEN "success"
    ELSE IF round(net_effect, 3) < 0 THEN "warning"
    ELSE "info"

\* v3 "What this means": if net > 0: st.success, elif net < 0: st.warning,
\* else: st.info
InterpretNet(net_effect) ==
    IF IsPositive(net_effect) THEN "success"
    ELSE IF IsNegative(net_effect) THEN "warning"
    ELSE "info"

\* variant that reads the net effect (used only to test the properties
\* below)
InterpretParts_ByNet(positive_sum, negative_sum) ==
    InterpretNet(FAdd(positive_sum, negative_sum))

\* v2 "What this means": if positive > 0 and negative == 0: st.success,
\* elif positive == 0 and negative < 0: st.warning, else: st.info
InterpretParts(positive_sum, negative_sum) ==
    IF IsPositive(positive_sum) /\ negative_sum = DyZero THEN "success"
    ELSE IF positive_sum = DyZero /\ IsNegative(negative_sum) THEN "warning"
    ELSE "info"

\* v2 Event, second block: if total_impact > 0: st.success, else: st.warning
InterpretTotal(total_impact) ==
    IF IsPositive(total_impact) THEN "success" ELSE "warning"

\* the message of the (first) "What this means" block
Interpretation(v, positive_sum, negative_sum) ==
    IF v = "v2" THEN InterpretParts(positive_sum, negative_sum)
    ELSE InterpretNet(FAdd(positive_sum, negative_sum))

\* variant that counts the rows kept by the filter (used only to test the
\* properties below)
NumSelected_Retained(selected, selected_df) == Len(selected_df)

\* len(selected_events) / len(selected_signals): the number of names in the
\* multiselect, whatever the filter kept
NumSelected(selected, selected_df) == Len(selected)

\* the metrics, the confidence, the chart, the interpretation and the
\* details of a simulator section, from the values computed above them
Display(v, s, uplift, selected_df, positive_sum, negative_sum, n_selected, confidence) ==
    [section |-> s, halted |-> FALSE,
     uplift |-> uplift,
     selected_df |-> selected_df,
     positive_sum |-> positive_sum,
     negative_sum |-> negative_sum,
     net_effect |-> FAdd(positive_sum, negative_sum),
     metric |-> round(FAdd(positive_sum, negative_sum), 3),
     n_selected |-> n_selected,
     confidence |-> confidence,
     band |-> ConfidenceGuide(v, confidence),
     interpretation |-> Interpretation(v, positive_sum, negative_sum),
     rendered |-> <<"header", "multiselect", "slider", "metrics",
                    "confidence", "chart", "interpretation", "details",
                    "footer">>]

\* v2 Event only: the three-way "What this means" block is drawn above the
\* metrics; total_impact is shown rounded in the metric, and the second
\* "What this means" block follows the chart
WithTotal(v, s, base, total_impact) ==
    IF v = "v2" /\ s = "Event Impact Simulator"
    THEN [f \in DOMAIN base \cup {"total_impact", "interpretation_2"} |->
             IF f = "total_impact" THEN total_impact
             ELSE IF f = "interpretation_2" THEN InterpretTotal(total_impact)
             ELSE IF f = "metric" THEN round(total_impact, 3)
             ELSE IF f = "rendered"
             THEN <<"header", "multiselect", "slider", "interpretation",
                    "metrics", "confidence", "chart", "interpretation",
                    "details", "footer">>
             ELSE base[f]]
    ELSE base

\* the sums and the confidence of the filtered rows
Summarize(v, s, selected, uplift, selected_df) ==
    WithTotal(v, s,
              Display(v, s, uplift, selected_df,
                      PositiveSum(selected_df), NegativeSum(selected_df),
                      NumSelected(selected, selected_df),
                      compute_confidence(
                          v, NumSelected(selected, selected_df))),
              TotalSum(selected_df))

\* the frames of a simulator section that passed the guard: all_events /
\* all_signals is the sorted table, selected_df the copy of its selected
\* rows, to which the impact column is added
SimulatorBody(s, signals, selected, uplift) ==
    AssignImpact(FilterCopy(SortValues(Load(signals),
                                       "signals", "all_signals"),
                            "all_signals", "selected_df", selected),
                 "selected_df", Direction(s), UpliftFactor(uplift))

\* the body of a simulator section after the empty-selection guard: the
\* frames m of the run, and the sums and the page made from selected_df
Simulate(v, s, signals, selected, uplift) ==
    CHOOSE run \in
        {Summarize(v, s, selected, uplift, Frame(m, "selected_df")) :
            m \in {SimulatorBody(s, signals, selected, uplift)}} : TRUE

\* variant that fills a missing coefficient column with 0 (used only to
\* test the properties below)
FillCoefficient(df) ==
    [i \in 1..Len(df) |-> [feature |-> df[i].feature, coefficient |-> DyZero]]

Simulator_DefaultCoefficient(v, s, signals, selected, uplift) ==
    IF "feature" \notin Columns(signals) THEN Failed(s)
    ELSE IF selected = <<>> THEN Halted(s, selected)
    ELSE IF "coefficient" \notin Columns(signals)
    THEN Simulate(v, s, FillCoefficient(signals), selected, uplift)
    ELSE Simulate(v, s, signals, selected, uplift)

\* variant without the guard (used only to test the properties below)
Simulator_NoGuard(v, s, signals, selected, uplift) ==
    Simulate(v, s, signals, selected, uplift)

\* a simulator section: the sort and the options, the guard, then the body
Simulator(v, s, signals, selected, uplift) ==
    IF ~HasColumns(signals) THEN Failed(s)
    ELSE IF selected = <<>> THEN Halted(s, selected)
    ELSE Simulate(v, s, signals, selected, uplift)

\* the sections that chart a signals table, and the table each reads
ChartsSignals(s) == s \in {"Conversion Intelligence", "Churn Early Warning"}

ChartedSignals(s, fi, ci) == IF s = "Conversion Intelligence" THEN fi ELSE ci

\* a section other than the simulators; the two charting sections draw
\* their first elements (caption, slider, metrics) before they read the
\* signals table, so a KeyError there follows content
Page(s, fi, ci) ==
    IF ChartsSignals(s) /\ ~HasColumns(ChartedSignals(s, fi, ci))
    THEN [section |-> s, halted |-> FALSE, error |-> "KeyError",
          rendered |-> <<"header", "content", "exception">>]
    ELSE [section |-> s, halted |-> FALSE,
          rendered |-> <<"header", "content", "footer">>]

\* the frames a run of section s leaves, signals being the table it reads.
\* Without the coefficient column the sort raises KeyError and no frame is
\* built.  Without the feature column the sorted frame is built and bound
\* before ["feature"] raises.  A halted simulator has built all_events /
\* all_signals only; Conversion Intelligence keeps the first top_n rows of
\* the sorted table as drivers, Churn Early Warning the first 10 as
\* top_churn
Objects(s, signals, selected, uplift, n) ==
    IF "coefficient" \notin Columns(signals) THEN Load(signals)
    ELSE IF IsSimulator(s)
    THEN IF "feature" \notin Columns(signals) \/ selected = <<>>
         THEN SortValues(Load(signals), "signals", "all_signals")
         ELSE SimulatorBody(s, signals, selected, uplift)
    ELSE IF s = "Conversion Intelligence"
    THEN SortHead(Load(signals), "signals", "drivers", n)
    ELSE IF s = "Churn Early Warning"
    THEN SortHead(Load(signals), "signals", "top_churn", ChurnTopCount)
    ELSE Load(signals)

\* the loaded table a section reads, if any
TableRead(s) ==
    IF s \in {"Event Impact Simulator", "Conversion Intelligence"}
    THEN "feature_importance"
    ELSE IF s \in {"Churn Impact Simulator", "Churn Early Warning"}
    THEN "churn_importance"
    ELSE "none"

\* variant in which a halted simulator stays halted (used only to test the
\* properties below)
Script_Sticky(v, s, fi, ci, selected, uplift) ==
    IF IsSimulator(s) /\ s = section /\ view.halted THEN view
    ELSE IF IsSimulator(s)
    THEN Simulator(v, s, SignalsOf(s, fi, ci), selected, uplift)
    ELSE Page(s, fi, ci)

\* one run of the script
Script(v, s, fi, ci, selected, uplift) ==
    IF IsSimulator(s)
    THEN Simulator(v, s, SignalsOf(s, fi, ci), selected, uplift)
    ELSE Page(s, fi, ci)

----------------------------------------------------------------------------
(* The session *)

\* the loaded table called name after a run of section s: the object that
\* name refers to, with every write the run made to it.  The frame is taken
\* as shared by the runs of a session: st.cache_data hands each run a copy
\* of the frame load_data() returned, which can only hide a write
AfterRun(name, df, s, selected, uplift, n) ==
    IF TableRead(s) = name
    THEN Frame(Objects(s, df, selected, uplift, n), "signals")
    ELSE df

\* the multiselect of the current section is on the page
MultiselectShown ==
    /\ IsSimulator(section)
    /\ HasColumns(SignalsOf(section, feature_importance, churn_importance))

\* the two sections that draw a multiselect
Simulators == {"Event Impact Simulator", "Churn Impact Simulator"}

\* the session holds no state for a widget
NoWidget == [set |-> FALSE, value |-> <<>>]

NoWidgets == [x \in Simulators |-> NoWidget]

NoConf == [variant |-> "none"]

Init ==
    /\ version \in Versions
    /\ \E d \in Datasets :
          /\ csv = [fi |-> d.fi, ci |-> d.ci]
          /\ feature_importance = d.fi
          /\ churn_importance = d.ci
    /\ section = Sections[1]
    /\ multiselect = <<>>
    /\ slider = SliderDefault
    /\ kept = NoWidgets
    /\ top_n = TopNDefault
    /\ view = Script(version, section, feature_importance, churn_importance,
                     multiselect, slider)
    /\ conf = NoConf

\* the run of section s on this selection ends before the footer: a column
\* is missing, or the selection of a simulator is empty
EndsEarly(s, fi, ci, selected) ==
    \/ IsSimulator(s)
       /\ (~HasColumns(SignalsOf(s, fi, ci)) \/ selected = <<>>)
    \/ ChartsSignals(s) /\ ~HasColumns(ChartedSignals(s, fi, ci))

\* the run of section s draws the multiselect of s
DrawsMultiselect(s, fi, ci) ==
    IsSimulator(s) /\ HasColumns(SignalsOf(s, fi, ci))

\* the run of section s on this selection draws the uplift slider
DrawsSlider(s, fi, ci, selected) ==
    IsSimulator(s) /\ ~EndsEarly(s, fi, ci, selected)

\* The session holds the state of a widget under the widget's identity,
\* which for a widget without key is made of its type, label and
\* arguments: the two multiselects differ by label, the two uplift sliders
\* are one widget.  A run that reaches its end drops the state of every
\* widget it did not draw.  Whether a run ended by st.stop() or by an
\* exception drops it depends on the Streamlit release, so after such a
\* run both outcomes are allowed.

\* the state of both multiselects before a run: the one on the page holds
\* the value the user gave it
WidgetState ==
    [x \in Simulators |->
        IF x = section /\ MultiselectShown
        THEN [set |-> TRUE, value |-> multiselect]
        ELSE kept[x]]

\* the value of the multiselect in a run of section s: the state the
\* session holds for it, or else its default
MultiselectValue(s, fi, ci) ==
    IF ~DrawsMultiselect(s, fi, ci) THEN <<>>
    ELSE IF WidgetState[s].set THEN WidgetState[s].value
    ELSE DefaultSelection(SignalsOf(s, fi, ci))

\* the states of the multiselects not drawn that a run of section s on
\* this selection may leave
KeptAfter(s, fi, ci, selected) ==
    IF EndsEarly(s, fi, ci, selected)
    THEN {NoWidgets,
          [x \in Simulators |->
              IF x = s /\ DrawsMultiselect(s, fi, ci) THEN NoWidget
              ELSE WidgetState[x]]}
    ELSE {NoWidgets}

\* the values the uplift slider may hold after a run of section s
SliderAfter(s, fi, ci, selected, value) ==
    IF DrawsSlider(s, fi, ci, selected) THEN {value}
    ELSE IF EndsEarly(s, fi, ci, selected) THEN {value, SliderDefault}
    ELSE {SliderDefault}

\* the values the "top drivers" slider may hold after a run of section s:
\* Conversion Intelligence draws it before it reads the table
TopNAfter(s, fi, ci, selected, value) ==
    IF s = "Conversion Intelligence" THEN {value}
    ELSE IF EndsEarly(s, fi, ci, selected) THEN {value, TopNDefault}
    ELSE {TopNDefault}

\* the user picks another view in the sidebar radio.  The two simulators
\* create the same slider (same label, bounds, default and step, no key),
\* so its value is kept by a direct change from one simulator to the other;
\* their multiselects differ by label
SelectSection(s) ==
    /\ s # section
    /\ section' = s
    /\ multiselect' = MultiselectValue(s, feature_importance,
                                       churn_importance)
    /\ slider' \in SliderAfter(s, feature_importance, churn_importance,
                               multiselect', slider)
    /\ kept' \in KeptAfter(s, feature_importance, churn_importance,
                           multiselect')
    /\ top_n' \in TopNAfter(s, feature_importance, churn_importance,
                            multiselect', top_n)
    /\ view' = Script(version, s, feature_importance, churn_importance,
                      multiselect', slider')
    /\ feature_importance' =
          AfterRun("feature_importance", feature_importance, s,
                   multiselect', slider', top_n')
    /\ churn_importance' =
          AfterRun("churn_importance", churn_importance, s,
                   multiselect', slider', top_n')
    /\ UNCHANGED <<version, csv, conf>>

\* the user adds an option to the multiselect (appended in click order)
AddSelection(name) ==
    /\ MultiselectShown
    /\ name \in Range(Options(SignalsOf(section, feature_importance,
                                        churn_importance)))
    /\ name \notin Range(multiselect)
    /\ multiselect' = Append(multiselect, name)
    /\ slider' = slider
    /\ kept' = NoWidgets
    /\ top_n' = TopNDefault
    /\ view' = Script(version, section, feature_importance, churn_importance,
                      multiselect', slider')
    /\ feature_importance' =
          AfterRun("feature_importance", feature_importance, section,
                   multiselect', slider', top_n')
    /\ churn_importance' =
          AfterRun("churn_importance", churn_importance, section,
                   multiselect', slider', top_n')
    /\ UNCHANGED <<version, csv, section, conf>>

\* the user removes an option from the multiselect; when none is left the
\* run stops before the slider
RemoveSelection(name) ==
    /\ MultiselectShown
    /\ name \in Range(multiselect)
    /\ multiselect' = SelectSeq(multiselect, LAMBDA x : x # name)
    /\ slider' \in SliderAfter(section, feature_importance, churn_importance,
                               multiselect', slider)
    /\ kept' \in KeptAfter(section, feature_importance, churn_importance,
                           multiselect')
    /\ top_n' \in TopNAfter(section, feature_importance, churn_importance,
                            multiselect', top_n)
    /\ view' = Script(version, section, feature_importance, churn_importance,
                      multiselect', slider')
    /\ feature_importance' =
          AfterRun("feature_importance", feature_importance, section,
                   multiselect', slider', top_n')
    /\ churn_importance' =
          AfterRun("churn_importance", churn_importance, section,
                   multiselect', slider', top_n')
    /\ UNCHANGED <<version, csv, section, conf>>

\* the user moves the uplift slider (rendered only after the guard)
MoveSlider(u) ==
    /\ MultiselectShown
    /\ multiselect # <<>>
    /\ u # slider
    /\ slider' = u
    /\ kept' = NoWidgets
    /\ top_n' = TopNDefault
    /\ view' = Script(version, section, feature_importance, churn_importance,
                      multiselect, slider')
    /\ feature_importance' =
          AfterRun("feature_importance", feature_importance, section,
                   multiselect, slider', top_n')
    /\ churn_importance' =
          AfterRun("churn_importance", churn_importance, section,
                   multiselect, slider', top_n')
    /\ UNCHANGED <<version, csv, section, multiselect, conf>>

\* the user moves the "top drivers" slider of Conversion Intelligence,
\* which is drawn before the section reads the table
MoveTopN(n) ==
    /\ section = "Conversion Intelligence"
    /\ n # top_n
    /\ top_n' = n
    /\ slider' \in SliderAfter(section, feature_importance, churn_importance,
                               multiselect, slider)
    /\ kept' \in KeptAfter(section, feature_importance, churn_importance,
                           multiselect)
    /\ view' = Script(version, section, feature_importance, churn_importance,
                      multiselect, slider')
    /\ feature_importance' =
          AfterRun("feature_importance", feature_importance, section,
                   multiselect, slider', top_n')
    /\ churn_importance' =
          AfterRun("churn_importance", churn_importance, section,
                   multiselect, slider', top_n')
    /\ UNCHANGED <<version, csv, section, multiselect, conf>>

Next ==
    \/ \E s \in Range(Sections) : SelectSection(s)
    \/ \E name \in AllFeatures : AddSelection(name)
    \/ \E name \in AllFeatures : RemoveSelection(name)
    \/ \E u \in UpliftValues : MoveSlider(u)
    \/ \E n \in TopNMin..TopNMax : MoveTopN(n)

Spec == Init /\ [][Next]_vars

----------------------------------------------------------------------------
(* Sessions on a signals table of eight rows or more, where Series.sum()   *)
(* no longer adds from the first value down                                *)

\* a conversion table of many signals: positive drivers, two signals of
\* coefficient 0 and negative ones
WideSignals ==
    <<Row("paywall_view", 400), Row("kundli_view", 350),
      Row("calendar_select", 300), Row("chat_open", 250),
      Row("report_view", 210), Row("horoscope_view", 150),
      Row("profile_view", 100), Row("settings_view", 0),
      Row("help_view", 0), Row("app_open", -50),
      Row("notification_dismiss", -100), Row("session_timeout", -300)>>

\* its first 8..MaxWide rows
WideTables ==
    {SubSeq(WideSignals, 1, n) : n \in 8..Min(MaxWide, Len(WideSignals))}

\* a table whose impacts cancel: 0.40 - 0.10 - 0.30
CancellingSignals ==
    <<Row("paywall_view", 400), Row("app_open", -100),
      Row("notification_dismiss", -300)>>

\* the data sets of these sessions: a wide table read by the Event
\* simulator next to the reference churn table, or read by the Churn
\* simulator next to the reference conversion table, and the cancelling
\* table
WideDatasets ==
    {[fi |-> t, ci |-> RefChurnImportance] : t \in WideTables}
    \cup {[fi |-> RefFeatureImportance, ci |-> t] : t \in WideTables}
    \cup {[fi |-> CancellingSignals, ci |-> RefChurnImportance]}

WideInit ==
    /\ version \in Versions
    /\ \E d \in WideDatasets :
          /\ csv = [fi |-> d.fi, ci |-> d.ci]
          /\ feature_importance = d.fi
          /\ churn_importance = d.ci
    /\ section = Sections[1]
    /\ multiselect = <<>>
    /\ slider = SliderDefault
    /\ kept = NoWidgets
    /\ top_n = TopNDefault
    /\ view = Script(version, section, feature_importance, churn_importance,
                     multiselect, slider)
    /\ conf = NoConf

\* the options of the multiselect on the page that are not selected, in
\* the order of the list
Unselected ==
    SelectSeq(Options(SignalsOf(section, feature_importance,
                                churn_importance)),
              LAMBDA x : x \notin Range(multiselect))

\* the clicks of these sessions: the user adds the first option of the
\* list that is not selected, and removes the name added last
WideNext ==
    \/ \E s \in Range(Sections) : SelectSection(s)
    \/ /\ MultiselectShown
       /\ Unselected # <<>>
       /\ AddSelection(Unselected[1])
    \/ /\ MultiselectShown
       /\ multiselect # <<>>
       /\ RemoveSelection(multiselect[Len(multiselect)])
    \/ \E u \in UpliftValues : MoveSlider(u)
    \/ \E n \in TopNMin..TopNMax : MoveTopN(n)

WideSpec == WideInit /\ [][WideNext]_vars

----------------------------------------------------------------------------
(* compute_confidence called on its own *)

\* data_size arguments tried for the v2 function
DataSizes == {0, 250, 500, 1000, 1234, 2500, 4000, 4999, 5000, 5001, 7500,
              10000}

ConfInit ==
    /\ version = "v3"
    /\ csv = [fi |-> RefFeatureImportance, ci |-> RefChurnImportance]
    /\ feature_importance = RefFeatureImportance
    /\ churn_importance = RefChurnImportance
    /\ section = Sections[1]
    /\ multiselect = <<>>
    /\ slider = SliderDefault
    /\ kept = NoWidgets
    /\ top_n = TopNDefault
    /\ view = Script(version, section, feature_importance, churn_importance,
                     multiselect, slider)
    /\ conf = NoConf

\* compute_confidence(num_features) of streamlit_app_v3.py
CallV3(n) ==
    /\ conf' = [variant |-> "v3", num_features |-> n,
                confidence |-> compute_confidence_v3(n)]
    /\ UNCHANGED <<version, csv, kept, top_n, feature_importance, churn_importance, section,
                   multiselect, slider, view>>

\* compute_confidence(num_features, data_size) of streamlit_app_v2.py
CallV2(n, ds) ==
    /\ conf' = [variant |-> "v2", num_features |-> n, data_size |-> ds,
                confidence |-> compute_confidence_v2(n, ds)]
    /\ UNCHANGED <<version, csv, kept, top_n, feature_importance, churn_importance, section,
                   multiselect, slider, view>>

ConfNext ==
    \/ \E n \in 0..MaxN : CallV3(n)
    \/ \E n \in 0..MaxN, ds \in DataSizes : CallV2(n, ds)

ConfSpec == ConfInit /\ [][ConfNext]_vars

----------------------------------------------------------------------------
(* The confidence guide shown for a confidence value *)

\* largest confidence value tried, in tenths of a percent
MaxTenths == 1000

\* the captions the v2 and the v3 if-chain pick for one value
ShowGuide(c) ==
    /\ conf' = [variant |-> "guide", confidence |-> c,
                band_v2 |-> ConfidenceGuide_v2(c),
                band_v3 |-> ConfidenceGuide_v3(c)]
    /\ UNCHANGED <<version, csv, kept, top_n, feature_importance, churn_importance, section,
                   multiselect, slider, view>>

GuideNext == \E c \in 0..MaxTenths : ShowGuide(c)

GuideSpec == ConfInit /\ [][GuideNext]_vars

----------------------------------------------------------------------------
(* The Targeting Simulator: a threshold, a cap, the user scores *)

\* largest number of rows of a user scores table
MaxUserRows == 12

\* st.slider(..., 0.1, 0.9, 0.4, 0.05): slider positions tried, in percent
ThresholdValues == {10, 40, 45, 90}

\* st.selectbox("Maximum users to target", [10, 20, 50, 100], index=1)
MaxUsersOptions == {10, 20, 50, 100}

\* a row of user_conversion_scores.csv (probability in thousandths)
UserRow(id, flag, c) ==
    [user_id |-> id, isPremiumUserFlag |-> flag,
     conversion_probability |-> FloatOfDecimal(c)]

\* scores a table draws from, by pattern: all free users with repeated
\* scores; free and premium users mixed; scores rising down the file
UserPatterns == {"free", "mixed", "rising"}

UserScore(i, p) ==
    IF p = "free" THEN 300 + 100 * (i % 4)
    ELSE IF p = "mixed"
    THEN <<400, 950, 100, 450, 399, 900, 50>>[(i % 7) + 1]
    ELSE 50 * i + 50

UserFlag(i, p) ==
    IF p = "free" THEN 0
    ELSE IF p = "mixed" THEN (IF i % 3 = 0 THEN 1 ELSE 0)
    ELSE (IF i % 5 = 0 THEN 1 ELSE 0)

\* user tables of 1..MaxUserRows rows, and one written without the
\* conversion_probability column
UserTables ==
    {[i \in 1..n |-> UserRow(i, UserFlag(i, p), UserScore(i, p))] :
        n \in 1..MaxUserRows, p \in UserPatterns}
    \cup {<<[user_id |-> 1, isPremiumUserFlag |-> 0]>>}

\* df.sort_values(by=col, ascending=False) on a float column; ties keep the
\* file order
sort_values_by(df, col) ==
    LET before(i, j) ==
            \/ FloatCmp(df[i][col], df[j][col]) > 0
            \/ df[i][col] = df[j][col] /\ i < j
        rank(i) == Cardinality({j \in 1..Len(df) : before(j, i)}) + 1
    IN  [p \in 1..Len(df) |->
            df[CHOOSE i \in 1..Len(df) : rank(i) = p]]

\* (isPremiumUserFlag == 0) & (conversion_probability >= threshold)
Eligible(row, threshold) ==
    /\ row.isPremiumUserFlag = 0
    /\ FloatCmp(row.conversion_probability, threshold) >= 0

\* variant that counts the users before the cap, as streamlit_app.py does
\* (used only to test the properties below)
TargetCount_BeforeHead(eligible, candidates) == Len(eligible)

\* st.metric("Target Users", len(candidates))
TargetCount(eligible, candidates) == Len(candidates)

\* candidates[["user_id", "conversion_probability"]]
ListedColumns(df) ==
    [i \in 1..Len(df) |->
        [user_id |-> df[i].user_id,
         conversion_probability |-> df[i].conversion_probability]]

\* the page from the filtered rows and from the candidates kept by the cap;
\* the average shown beside the count is rendered but its value is not
\* computed here
TargetingPage(v, eligible, candidates) ==
    [has_list |-> TRUE,
     candidates |-> candidates,
     target_users |-> TargetCount(eligible, candidates),
     listed |-> ListedColumns(candidates),
     download |-> candidates,
     rendered |-> <<"header", "slider", "selectbox", "metrics", "dataframe",
                    "download_button">>
                  \o (IF v = "v2" THEN <<"success">> ELSE <<"narrative">>)
                  \o <<"footer">>]

\* the Targeting Simulator section.  v3 reads
\* freemium_users["conversion_probability"] at the top of every run, before
\* the sidebar: without the column the run ends there with a KeyError and
\* draws no section; v2 reaches the section and its st.error branch
Targeting(v, user_features, threshold, max_users) ==
    IF "conversion_probability" \in Columns(user_features)
    THEN TargetingPage(
             v,
             SelectSeq(user_features, LAMBDA row : Eligible(row, threshold)),
             head(sort_values_by(
                      SelectSeq(user_features,
                                LAMBDA row : Eligible(row, threshold)),
                      "conversion_probability"),
                  max_users))
    ELSE IF v = "v3"
    THEN [has_list |-> FALSE, error |-> "KeyError",
          rendered |-> <<"exception">>]
    ELSE [has_list |-> FALSE,
          rendered |-> <<"header", "slider", "selectbox", "error",
                         "footer">>]

\* defaults of the two widgets (percent; rows)
ThresholdDefault == 40

MaxUsersDefault == 20

\* a name that is not bound in a run that ended before assigning it
None == "None"

\* v3 only: baseline_avg_prob = freemium_users["conversion_probability"]
\* .mean() at the top of the script raises KeyError when the column is absent
TopLevelFails(v, user_features) ==
    v = "v3" /\ "conversion_probability" \notin Columns(user_features)

\* the run that ends there: the exception alone, before the sidebar radio,
\* any section and the footer
TopLevelFailed ==
    [section |-> None, halted |-> FALSE, error |-> "KeyError",
     rendered |-> <<"exception">>]

\* the widget values, the user table and the page of the latest run
TargetingRun(v, uf, t, mu) ==
    [variant |-> "targeting", user_features |-> uf,
     threshold |-> IF TopLevelFails(v, uf) THEN None ELSE FDiv(t, 100),
     max_users |-> IF TopLevelFails(v, uf) THEN None ELSE mu,
     page |-> Targeting(v, uf, FDiv(t, 100), mu)]

\* the Targeting Simulator opened on a loaded user table; in v3 a table
\* without conversion_probability ends the run before the section is chosen
TargetingInit ==
    /\ version \in Versions
    /\ csv = [fi |-> RefFeatureImportance, ci |-> RefChurnImportance]
    /\ feature_importance = RefFeatureImportance
    /\ churn_importance = RefChurnImportance
    /\ multiselect = <<>>
    /\ slider = SliderDefault
    /\ kept = NoWidgets
    /\ top_n = TopNDefault
    /\ \E uf \in UserTables :
          /\ section = IF TopLevelFails(version, uf) THEN None
                       ELSE "Targeting Simulator"
          /\ view = IF TopLevelFails(version, uf) THEN TopLevelFailed
                    ELSE Script(version, section, feature_importance,
                                churn_importance, multiselect, slider)
          /\ conf = TargetingRun(version, uf, ThresholdDefault,
                                 MaxUsersDefault)

\* the user moves the probability slider
MoveThreshold(t) ==
    /\ "slider" \in Range(conf.page.rendered)
    /\ FDiv(t, 100) # conf.threshold
    /\ conf' = [conf EXCEPT
                   !.threshold = FDiv(t, 100),
                   !.page = Targeting(version, conf.user_features,
                                      FDiv(t, 100), conf.max_users)]
    /\ UNCHANGED <<version, csv, kept, top_n, feature_importance, churn_importance, section,
                   multiselect, slider, view>>

\* the user picks another cap in the selectbox
SelectMaxUsers(mu) ==
    /\ "selectbox" \in Range(conf.page.rendered)
    /\ mu # conf.max_users
    /\ conf' = [conf EXCEPT
                   !.max_users = mu,
                   !.page = Targeting(version, conf.user_features,
                                      conf.threshold, mu)]
    /\ UNCHANGED <<version, csv, kept, top_n, feature_importance, churn_importance, section,
                   multiselect, slider, view>>

TargetingNext ==
    \/ \E t \in ThresholdValues : MoveThreshold(t)
    \/ \E mu \in MaxUsersOptions : SelectMaxUsers(mu)

TargetingSpec == TargetingInit /\ [][TargetingNext]_vars

----------------------------------------------------------------------------
(* Market Trend Intelligence: the demand table and the analysis window *)

\* largest number of rows of the daily demand table
MaxDays == 15

\* rows that head(7) and tail(7) take
TrendRows == 7

\* daily_premium_demand.csv by pattern: rising, falling and constant counts
\* on consecutive days, a peak in the middle, counts on every second day,
\* and a rising series written newest first
DemandPatterns == {"rising", "falling", "constant", "peak", "gaps", "newest"}

DemandDate(i, n, p) ==
    IF p = "gaps" THEN 2 * i
    ELSE IF p = "newest" THEN n + 1 - i
    ELSE i

DemandCount(i, n, p) ==
    IF p = "rising" THEN 10 + 3 * i
    ELSE IF p = "falling" THEN 90 - 4 * i
    ELSE IF p = "constant" THEN 25
    ELSE IF p = "peak" THEN (IF 2 * i <= n THEN 10 + 5 * i
                             ELSE 10 + 5 * (n - i))
    ELSE IF p = "gaps" THEN 20 + (i % 3)
    ELSE 10 + 3 * (n + 1 - i)

DemandTables ==
    {[i \in 1..n |-> [payment_date |-> DemandDate(i, n, p),
                      premium_subscriptions |-> DemandCount(i, n, p)]] :
        n \in 1..MaxDays, p \in DemandPatterns}

\* daily_demand["payment_date"].min() and .max()
MinDate(df) ==
    CHOOSE d \in {df[i].payment_date : i \in 1..Len(df)} :
        \A i \in 1..Len(df) : d <= df[i].payment_date

MaxDate(df) ==
    CHOOSE d \in {df[i].payment_date : i \in 1..Len(df)} :
        \A i \in 1..Len(df) : d >= df[i].payment_date

\* daily_demand[(payment_date >= date_range[0]) & (payment_date <= ...[1])]
Window(df, lo, hi) ==
    SelectSeq(df, LAMBDA row : row.payment_date >= lo /\ row.payment_date <= hi)

\* df.tail(n)
tail(df, n) == SubSeq(df, Len(df) - Min(n, Len(df)) + 1, Len(df))

\* the sum of an integer column
RECURSIVE IntSumFrom(_, _)
IntSumFrom(df, i) ==
    IF i > Len(df) THEN 0
    ELSE df[i].premium_subscriptions + IntSumFrom(df, i + 1)

\* Series.mean() of an integer column: the exact sum divided by the count
\* as floats; NaN for no rows
mean(df) ==
    IF df = <<>> THEN [nan |-> TRUE, value |-> DyZero]
    ELSE [nan |-> FALSE, value |-> FDiv(IntSumFrom(df, 1), Len(df))]

\* x > y on floats; False when either is NaN
Greater(x, y) == ~x.nan /\ ~y.nan /\ FloatCmp(x.value, y.value) > 0

\* variant with a non-strict comparison (used only to test the properties
\* below)
TrendMessage_NonStrict(recent_avg, earlier_avg) ==
    IF ~recent_avg.nan /\ ~earlier_avg.nan
       /\ FloatCmp(recent_avg.value, earlier_avg.value) >= 0
    THEN "upward" ELSE "flat"

\* "upward momentum" if recent_avg > earlier_avg else "flat or soft" (v2:
\* "flat or declining")
TrendMessage(recent_avg, earlier_avg) ==
    IF Greater(recent_avg, earlier_avg) THEN "upward" ELSE "flat"

\* the section from the filtered rows
TrendPage(filtered) ==
    [filtered |-> filtered,
     recent_avg |-> mean(tail(filtered, TrendRows)),
     earlier_avg |-> mean(head(filtered, TrendRows)),
     trend_msg |-> TrendMessage(mean(tail(filtered, TrendRows)),
                                mean(head(filtered, TrendRows))),
     rendered |-> <<"header", "slider", "charts", "trend", "narrative",
                    "footer">>]

\* the Market Trend Intelligence section
MarketTrend(daily_demand, lo, hi) == TrendPage(Window(daily_demand, lo, hi))

\* the section opened on a loaded demand table; the slider starts on the
\* whole range
TrendInit ==
    /\ version \in Versions
    /\ csv = [fi |-> RefFeatureImportance, ci |-> RefChurnImportance]
    /\ feature_importance = RefFeatureImportance
    /\ churn_importance = RefChurnImportance
    /\ section = "Market Trend Intelligence"
    /\ multiselect = <<>>
    /\ slider = SliderDefault
    /\ kept = NoWidgets
    /\ top_n = TopNDefault
    /\ view = Script(version, section, feature_importance, churn_importance,
                     multiselect, slider)
    /\ \E dd \in DemandTables :
          conf = [variant |-> "trend", daily_demand |-> dd,
                  lo |-> MinDate(dd), hi |-> MaxDate(dd),
                  page |-> MarketTrend(dd, MinDate(dd), MaxDate(dd))]

\* the user drags the start of the window
MoveStart(d) ==
    /\ d # conf.lo
    /\ d >= MinDate(conf.daily_demand)
    /\ d <= conf.hi
    /\ conf' = [conf EXCEPT
                   !.lo = d,
                   !.page = MarketTrend(conf.daily_demand, d, conf.hi)]
    /\ UNCHANGED <<version, csv, kept, top_n, feature_importance, churn_importance, section,
                   multiselect, slider, view>>

\* the user drags the end of the window
MoveEnd(d) ==
    /\ d # conf.hi
    /\ d <= MaxDate(conf.daily_demand)
    /\ d >= conf.lo
    /\ conf' = [conf EXCEPT
                   !.hi = d,
                   !.page = MarketTrend(conf.daily_demand, conf.lo, d)]
    /\ UNCHANGED <<version, csv, kept, top_n, feature_importance, churn_importance, section,
                   multiselect, slider, view>>

TrendNext ==
    \/ \E d \in 1..(2 * MaxDays) : MoveStart(d)
    \/ \E d \in 1..(2 * MaxDays) : MoveEnd(d)

TrendSpec == TrendInit /\ [][TrendNext]_vars

----------------------------------------------------------------------------
(* Properties *)

\* a simulator run that got past the empty-selection guard
Completed == IsSimulator(section) /\ ~view.halted

Signals == SignalsOf(section, feature_importance, churn_importance)

Impacts == ImpactColumn(view.selected_df)

\* the float sum, first row down, of the entries of f whose index is in S
RECURSIVE FloatSumOver(_, _, _, _)
FloatSumOver(f, S, i, acc) ==
    IF i > Len(f) THEN acc
    ELSE FloatSumOver(f, S, i + 1, IF i \in S THEN FAdd(acc, f[i]) ELSE acc)

\* the exact (unrounded) sum of the entries of f
RECURSIVE ExactSum(_, _)
ExactSum(f, i) ==
    IF i > Len(f) THEN DyZero ELSE DyAdd(f[i], ExactSum(f, i + 1))

\* the exact sum of the magnitudes of the entries of f
RECURSIVE ExactSumAbs(_, _)
ExactSumAbs(f, i) ==
    IF i > Len(f) THEN DyZero ELSE DyAdd(DyAbs(f[i]), ExactSumAbs(f, i + 1))

\* |a - b| <= 2^-k * bound, exactly
Within(a, b, k, bound) == DyCmp(DyScale(DyAbs(DySub(a, b)), k), bound) <= 0

\* the float x is the real number c * uplift / 100 up to 2^-52 of it
IsProduct(x, c, uplift) ==
    LET p == DyMul(c, DyOfInt(uplift))
    IN  Within(DyMul(x, DyOfInt(100)), p, 52, DyAbs(p))

\* C1: in every completed simulator run, whatever the table, the selection
\* and the slider value, each retained record carries its table coefficient
\* and simulated_impact = coefficient * (uplift/100) in the Event simulator
\* and -coefficient * (uplift/100) in the Churn simulator: the float the
\* expression evaluates to, which is the real product up to 2^-52 of it.
C1_ImpactFormula ==
    Completed =>
        /\ slider \in UpliftValues
        /\ view.uplift = slider
        /\ \A i \in 1..Len(view.selected_df) :
              LET r == view.selected_df[i] IN
              /\ \E k \in 1..Len(Signals) :
                    /\ Signals[k].feature = r.feature
                    /\ Signals[k].coefficient = r.coefficient
              /\ section = "Event Impact Simulator" =>
                    /\ r.simulated_impact =
                          FMul(r.coefficient, FDiv(slider, 100))
                    /\ IsProduct(r.simulated_impact, r.coefficient, slider)
              /\ section = "Churn Impact Simulator" =>
                    /\ r.simulated_impact =
                          FMul(DyNeg(r.coefficient), FDiv(slider, 100))
                    /\ IsProduct(r.simulated_impact, DyNeg(r.coefficient),
                                 slider)

C1_Witness ==
    /\ Completed
    /\ section = "Churn Impact Simulator"
    /\ slider = SliderMax
    /\ \E i \in 1..Len(view.selected_df) :
          /\ view.selected_df[i].coefficient = FDiv(1, 2)
          /\ view.selected_df[i].simulated_impact = FDiv(-1, 4)

\* the retained impacts are not of both signs
OneSided ==
    \/ \A i \in DOMAIN Impacts : ~IsNegative(Impacts[i])
    \/ \A i \in DOMAIN Impacts : ~IsPositive(Impacts[i])

\* the plain sum of the retained impacts as the program computes it:
\* selected_df["simulated_impact"].sum()
PlainSum == SumSeq(Impacts)

\* the partition sums add the same values in the same order as the plain
\* sum: every retained impact has the same strict sign (the filter keeps
\* the whole column), or none has the other sign and fewer than 8 are
\* retained (the values are added from the first down, and a 0 adds
\* nothing)
SameOrder ==
    \/ \A i \in DOMAIN Impacts : IsPositive(Impacts[i])
    \/ \A i \in DOMAIN Impacts : IsNegative(Impacts[i])
    \/ OneSided /\ Len(Impacts) < 8

\* Len(Impacts) times the sum of the magnitudes of the impacts
RoundingScale == DyMul(DyOfInt(Len(Impacts)), ExactSumAbs(Impacts, 1))

\* C2 as stated: in every completed simulator run net_effect (positive_sum +
\* negative_sum) equals the plain sum of simulated_impact over the retained
\* records, and in the v2 Event simulator total_impact equals net_impact.
C2_Original ==
    Completed =>
        /\ view.net_effect = FAdd(view.positive_sum, view.negative_sum)
        /\ view.net_effect = PlainSum
        /\ (version = "v2" /\ section = "Event Impact Simulator") =>
              view.total_impact = view.net_effect

\* C2 as amended: net_effect is the float positive_sum + negative_sum and
\* v2's total_impact is Series.sum() of the impact column.  The two are the
\* same float when every retained impact has the same strict sign, and
\* when none has the other sign and fewer than 8 are retained.  In every
\* other case they agree, and agree with the exact sum, only up to
\* rounding: within n * 2^-52 of the sum of the magnitudes of the n
\* retained impacts.
C2_NetIsPlainSum ==
    Completed =>
        /\ view.net_effect = FAdd(view.positive_sum, view.negative_sum)
        /\ SameOrder => view.net_effect = PlainSum
        /\ Within(view.net_effect, PlainSum, 52, RoundingScale)
        /\ Within(view.net_effect, ExactSum(Impacts, 1), 52, RoundingScale)
        /\ Within(PlainSum, ExactSum(Impacts, 1), 52, RoundingScale)
        /\ (version = "v2" /\ section = "Event Impact Simulator") =>
              view.total_impact = PlainSum

\* eight retained impacts, none negative and one of them 0, whose plain sum
\* is not the net effect
C2_Witness ==
    /\ Completed
    /\ version = "v2"
    /\ section = "Event Impact Simulator"
    /\ OneSided
    /\ Len(Impacts) = 8
    /\ view.total_impact # view.net_effect
    /\ Within(view.total_impact, view.net_effect, 52, RoundingScale)

\* impacts of both signs that cancel in the net effect and not in the
\* plain sum
C2_WitnessCancel ==
    /\ Completed
    /\ version = "v2"
    /\ section = "Event Impact Simulator"
    /\ ~OneSided
    /\ IsPositive(view.total_impact)
    /\ view.net_effect = DyZero

\* more than eight retained impacts of both signs with equal sums
C2_WitnessWide ==
    /\ Completed
    /\ ~OneSided
    /\ Len(Impacts) > 8
    /\ view.net_effect = PlainSum

\* C3: positive_sum is the sum of exactly the impacts > 0 and negative_sum
\* the sum of exactly those < 0; dropping the records whose impact is 0
\* changes neither; positive_sum >= 0 >= negative_sum; both are 0 when no
\* record is retained.
C3_Partition ==
    Completed =>
        /\ view.positive_sum =
              FloatSumOver(Impacts,
                           {i \in DOMAIN Impacts : IsPositive(Impacts[i])},
                           1, DyZero)
        /\ view.negative_sum =
              FloatSumOver(Impacts,
                           {i \in DOMAIN Impacts : IsNegative(Impacts[i])},
                           1, DyZero)
        /\ LET nonzero == SelectSeq(view.selected_df,
                                    LAMBDA r : r.simulated_impact # DyZero)
           IN  /\ PositiveSum(nonzero) = view.positive_sum
               /\ NegativeSum(nonzero) = view.negative_sum
        /\ view.positive_sum.s >= 0
        /\ view.negative_sum.s <= 0
        /\ (\A i \in DOMAIN Impacts : Impacts[i] = DyZero) =>
              (view.positive_sum = DyZero /\ view.negative_sum = DyZero)
        /\ LET none == Simulate(version, section, Signals,
                                <<"no_such_feature">>, slider)
           IN  /\ none.selected_df = <<>>
               /\ none.positive_sum = DyZero
               /\ none.negative_sum = DyZero

C3_Witness ==
    /\ Completed
    /\ \E i, j, k \in DOMAIN Impacts :
          /\ Impacts[i] = DyZero
          /\ IsPositive(Impacts[j])
          /\ IsNegative(Impacts[k])

\* C4: in the Event simulator every simulated_impact has the sign of its
\* coefficient (zero iff the coefficient is zero); in the Churn simulator
\* it has the opposite sign.
C4_SignCorrect ==
    Completed =>
        \A i \in 1..Len(view.selected_df) :
            LET r == view.selected_df[i] IN
            /\ section = "Event Impact Simulator" =>
                  r.simulated_impact.s = r.coefficient.s
            /\ section = "Churn Impact Simulator" =>
                  r.simulated_impact.s = -r.coefficient.s

C4_Witness ==
    /\ Completed
    /\ section = "Event Impact Simulator"
    /\ slider = SliderMin
    /\ \E i, j \in 1..Len(view.selected_df) :
          /\ IsNegative(view.selected_df[i].coefficient)
          /\ view.selected_df[j].coefficient = DyZero

\* what a run computes and shows only after the guard
Results == {"uplift", "selected_df", "positive_sum", "negative_sum",
            "net_effect", "metric", "total_impact", "n_selected",
            "confidence",
            "band", "interpretation", "interpretation_2"}

\* C5: a simulator run with an empty selection shows the warning and
\* stops: the slider is not rendered (no uplift is read), nothing is
\* computed or displayed after the warning; a run with a non-empty
\* selection is not halted.
C5_EmptySelectionHalts ==
    IsSimulator(section) =>
        /\ view.halted <=> multiselect = <<>>
        /\ view.halted =>
              /\ view.rendered = <<"header", "multiselect", "warning">>
              /\ DOMAIN view \cap Results = {}
              /\ "slider" \notin Range(view.rendered)

C5_Witness ==
    /\ section = "Churn Impact Simulator"
    /\ multiselect = <<>>
    /\ view.halted
    /\ view.rendered[Len(view.rendered)] = "warning"

\* names that are in no row of the current table: one of no table, and
\* the last name of either reference table
Unmatched ==
    {"no_such_feature",
     RefFeatureImportance[Len(RefFeatureImportance)].feature,
     RefChurnImportance[Len(RefChurnImportance)].feature}
        \ Range(FeatureList(Signals))

\* C6: the per-signal result holds exactly the table records whose name is
\* selected, one row each (names are unique); the sums are taken over these
\* rows only; a selected name that is in no row of the table adds no row,
\* raises nothing and leaves the rows and the sums as they are.
C6_SelectionIsIntersection ==
    Completed =>
        /\ Range(FeatureList(view.selected_df)) =
              Range(multiselect) \cap Range(FeatureList(Signals))
        /\ Len(view.selected_df) =
              Cardinality(Range(multiselect) \cap Range(FeatureList(Signals)))
        /\ \A k \in 1..Len(Signals) :
              Signals[k].feature \in Range(multiselect) <=>
                  \E i \in 1..Len(view.selected_df) :
                      /\ view.selected_df[i].feature = Signals[k].feature
                      /\ view.selected_df[i].coefficient =
                            Signals[k].coefficient
        /\ view.positive_sum = PositiveSum(view.selected_df)
        /\ view.negative_sum = NegativeSum(view.selected_df)
        /\ Within(view.net_effect, ExactSum(Impacts, 1), 50,
                  ExactSumAbs(Impacts, 1))
        /\ \A ghost \in Unmatched :
              LET more == Simulate(version, section, Signals,
                                   Append(multiselect, ghost), slider)
                  only == Simulate(version, section, Signals, <<ghost>>,
                                   slider)
              IN  /\ more.selected_df = view.selected_df
                  /\ more.positive_sum = view.positive_sum
                  /\ more.negative_sum = view.negative_sum
                  /\ more.net_effect = view.net_effect
                  /\ only.selected_df = <<>>
                  /\ only.net_effect = DyZero

C6_Witness ==
    /\ Completed
    /\ Len(view.selected_df) = 1
    /\ Len(Signals) = 4
    /\ view.net_effect # DyZero
    /\ Unmatched # {}

\* C7: the per-signal rows are listed in the ranked order of the signals
\* table (non-increasing coefficient) for every order of selection, in both
\* simulators; the Event impacts are therefore non-increasing and the Churn
\* impacts non-decreasing.
C7_RankedOrder ==
    Completed =>
        /\ FeatureList(view.selected_df) =
              SelectSeq(Options(Signals), LAMBDA f : f \in Range(multiselect))
        /\ \A i, j \in 1..Len(view.selected_df) :
              i < j =>
                /\ DyCmp(view.selected_df[i].coefficient,
                         view.selected_df[j].coefficient) >= 0
                /\ section = "Event Impact Simulator" =>
                      DyCmp(view.selected_df[i].simulated_impact,
                            view.selected_df[j].simulated_impact) >= 0
                /\ section = "Churn Impact Simulator" =>
                      DyCmp(view.selected_df[i].simulated_impact,
                            view.selected_df[j].simulated_impact) <= 0

C7_Witness ==
    /\ Completed
    /\ section = "Churn Impact Simulator"
    /\ Len(multiselect) = 3
    /\ FeatureList(view.selected_df) # multiselect
    /\ FeatureList(view.selected_df) # FeatureList(isin(Signals, multiselect))
    /\ DyCmp(view.selected_df[1].simulated_impact,
             view.selected_df[3].simulated_impact) < 0

\* C8: with the table and the selection held fixed, the run at twice the
\* uplift (u and 2u both slider values) has twice every simulated_impact,
\* positive_sum, negative_sum and net_effect, in both simulators.
C8_LinearInUplift ==
    (Completed /\ 2 * slider \in UpliftValues) =>
        LET twice == Simulator(version, section, Signals, multiselect,
                               2 * slider)
        IN  /\ ~twice.halted
            /\ Len(twice.selected_df) = Len(view.selected_df)
            /\ \A i \in 1..Len(view.selected_df) :
                  /\ twice.selected_df[i].feature =
                        view.selected_df[i].feature
                  /\ twice.selected_df[i].simulated_impact =
                        FMul(FloatOfInt(2),
                             view.selected_df[i].simulated_impact)
            /\ twice.positive_sum = FMul(FloatOfInt(2), view.positive_sum)
            /\ twice.negative_sum = FMul(FloatOfInt(2), view.negative_sum)
            /\ twice.net_effect = FMul(FloatOfInt(2), view.net_effect)

C8_Witness ==
    /\ Completed
    /\ slider = 25
    /\ IsPositive(view.positive_sum)
    /\ IsNegative(view.negative_sum)
    /\ view.net_effect # DyZero

\* a direct call as the simulators make it: v3, or v2 with data_size left
\* at its default
AppCall ==
    \/ conf.variant = "v3"
    \/ conf.variant = "v2" /\ conf.data_size = DefaultDataSize

\* the value the same variant returns for m features
SameCall(m) ==
    IF conf.variant = "v3" THEN compute_confidence_v3(m)
    ELSE compute_confidence_v2(m, conf.data_size)

\* C9 as stated: compute_confidence is monotone non-decreasing in the number
\* of selected signals and lies in [floor*100, 100], with floor 0.5 for v3
\* and floor 0.6 for v2 called with the default data_size.
C9_Original ==
    AppCall =>
        /\ \A m \in 0..conf.num_features : SameCall(m) <= conf.confidence
        /\ conf.confidence <= 1000
        /\ conf.variant = "v3" => conf.confidence >= 500
        /\ conf.variant = "v2" => conf.confidence >= 600

\* C9 as amended: compute_confidence is monotone non-decreasing in the
\* number of selected signals in both variants; v3 lies in [50.0, 100.0];
\* v2 called with the default data_size lies in [12.0, 52.0].
C9_MonotoneBounded ==
    AppCall =>
        /\ \A m \in 0..conf.num_features : SameCall(m) <= conf.confidence
        /\ conf.variant = "v3" =>
              (conf.confidence >= 500 /\ conf.confidence <= 1000)
        /\ conf.variant = "v2" =>
              (conf.confidence >= 120 /\ conf.confidence <= 520)

C9_Witness ==
    /\ conf.variant = "v2"
    /\ conf.data_size = DefaultDataSize
    /\ conf.num_features > TotalPossible
    /\ conf.confidence = 520

\* round(100 * (base_weight + (1 - base_weight) * min(1, n/5)), 1) in tenths
\* of a percent, base_weight given in tenths
Canonical(n, base_weight) ==
    RoundHalfEven((base_weight * TotalPossible
                      + (10 - base_weight) * Min(TotalPossible, n)) * 1000,
                  10 * TotalPossible)

\* C10 as stated: compute_confidence(n) equals the canonical formula with
\* base_weight 0.5 in v3 and base_weight 0.6 in v2 (default data_size).
C10_Original ==
    AppCall =>
        /\ conf.variant = "v3" =>
              conf.confidence = Canonical(conf.num_features, 5)
        /\ conf.variant = "v2" =>
              conf.confidence = Canonical(conf.num_features, 6)

\* C10 as amended: v3's compute_confidence(n) equals the canonical formula
\* with base_weight 0.5; v2's, called with the default data_size, equals
\* round(100 * (0.6 * 0.2 + 0.4 * min(1, n/5)), 1) = 12 + 8 * min(n, 5),
\* which is the canonical value for base_weight 0.6 lowered by 48.0.
C10_Formulas ==
    AppCall =>
        /\ conf.variant = "v3" =>
              conf.confidence = Canonical(conf.num_features, 5)
        /\ conf.variant = "v2" =>
              /\ conf.confidence =
                    120 + 80 * Min(conf.num_features, TotalPossible)
              /\ conf.confidence = Canonical(conf.num_features, 6) - 480

C10_Witness ==
    /\ conf.variant = "v3"
    /\ conf.num_features = 3
    /\ conf.confidence = 800

\* C11: in both variants, for every data_size, compute_confidence(n) for
\* n >= 5 is the value for n = 5: selecting more than 5 signals never
\* changes the confidence.
C11_CoverageCapped ==
    (conf.variant \in {"v2", "v3"} /\ conf.num_features >= TotalPossible) =>
        /\ conf.confidence = SameCall(TotalPossible)
        /\ \A m \in TotalPossible..MaxN : SameCall(m) = conf.confidence

C11_Witness ==
    /\ conf.variant = "v2"
    /\ conf.data_size = DefaultDataSize
    /\ conf.num_features = TotalPossible + 2
    /\ conf.confidence = compute_confidence_v2(TotalPossible, DefaultDataSize)
    /\ conf.confidence > compute_confidence_v2(TotalPossible - 1,
                                               DefaultDataSize)

\* C12: every confidence value gets exactly one band: low iff confidence <
\* 40, moderate iff 40 <= confidence < 70, high iff confidence >= 70; the v2
\* if-chain and the v3 if-chain give the same band to every value, the
\* boundaries 40.0 and 70.0 included.
C12_OneBand ==
    conf.variant = "guide" =>
        /\ conf.band_v2 = conf.band_v3
        /\ conf.band_v3 \in {"low", "moderate", "high"}
        /\ conf.band_v3 = "low" <=> conf.confidence < 400
        /\ conf.band_v3 = "moderate" <=>
              (400 <= conf.confidence /\ conf.confidence < 700)
        /\ conf.band_v3 = "high" <=> conf.confidence >= 700

C12_Witness ==
    /\ conf.variant = "guide"
    /\ conf.confidence = 700
    /\ conf.band_v2 = "high"
    /\ conf.band_v3 = "high"

\* the fields of a run named by the claims on its result
SameResult(a, b) ==
    /\ a.selected_df = b.selected_df
    /\ a.positive_sum = b.positive_sum
    /\ a.negative_sum = b.negative_sum
    /\ a.net_effect = b.net_effect
    /\ a.confidence = b.confidence

\* the same selection clicked in other orders
Reverse(s) == [i \in 1..Len(s) |-> s[Len(s) + 1 - i]]

Rotate(s) == IF s = <<>> THEN s ELSE Append(Tail(s), Head(s))

\* data that differ from the loaded data in the table the current section
\* does not read
OtherData ==
    IF section = "Event Impact Simulator"
    THEN [fi |-> feature_importance, ci |-> Reverse(RefChurnImportance)]
    ELSE [fi |-> Reverse(RefFeatureImportance), ci |-> churn_importance]

\* second runs on the same signals, selection and uplift: the names clicked
\* in another order, or the other table replaced
SecondRuns ==
    {Script(version, section, feature_importance, churn_importance,
            selected, slider) :
        selected \in {Reverse(multiselect), Rotate(multiselect)}}
    \cup {Script(version, section, OtherData.fi, OtherData.ci, multiselect,
                 slider)}

\* C13: a completed run is a function of the signals table, the selection,
\* the uplift and the direction only: a second run on the same inputs, with
\* the names clicked in another order or with other data in the table the
\* section does not read, yields the same rows, positive_sum, negative_sum,
\* net_effect and confidence.
C13_Deterministic ==
    Completed =>
        /\ SignalsOf(section, OtherData.fi, OtherData.ci) = Signals
        /\ \A again \in SecondRuns :
              /\ ~again.halted
              /\ SameResult(again, view)

C13_Witness ==
    /\ Completed
    /\ Len(multiselect) >= 3
    /\ Reverse(multiselect) # multiselect
    /\ Rotate(multiselect) # FeatureList(view.selected_df)
    /\ IsPositive(view.positive_sum)
    /\ IsNegative(view.negative_sum)

\* the first run of a new session, which has only the two files, opened on
\* the current section with the current selection and uplift
FreshRun ==
    IF IsSimulator(section)
    THEN Simulator(version, section, SignalsOf(section, csv.fi, csv.ci),
                   multiselect, slider)
    ELSE Page(section, csv.fi, csv.ci)

\* C14: after any sequence of section changes, selection changes and uplift
\* changes, runs halted by an empty selection included, what the current run
\* displays is what a fresh run on the current selection and uplift
\* displays: the run of a session that has seen no earlier run, whose
\* tables come straight from the files.  No earlier run or halt
\* influences it, neither through the frames the earlier runs worked on
\* nor through what they displayed.
C14_HistoryIndependent == view = FreshRun

C14_Witness ==
    /\ Completed
    /\ Signals # sort_values(Signals)
    /\ slider # SliderDefault
    /\ Len(multiselect) = 1
    /\ multiselect[1] \notin Range(DefaultSelection(Signals))
    /\ view.net_effect # DyZero

\* the loaded tables hold the CSV columns only
OnlyCsvColumns ==
    /\ \A i \in 1..Len(feature_importance) :
          DOMAIN feature_importance[i] = {"feature", "coefficient"}
    /\ \A i \in 1..Len(churn_importance) :
          DOMAIN churn_importance[i] = {"feature", "coefficient"}

\* C15: no script run, Event or Churn, halted or completed, whatever the
\* selection and the uplift, changes the rows, the order or the columns of
\* feature_importance or churn_importance: after every run the object each
\* name refers to still holds the rows of the file, in the order of the
\* file, with the columns of the file; simulated_impact exists only in
\* the rows of the run's own copy.
C15_TablesReadOnly ==
    /\ [](/\ OnlyCsvColumns
          /\ feature_importance = csv.fi
          /\ churn_importance = csv.ci)
    /\ [][/\ feature_importance' = feature_importance
          /\ churn_importance' = churn_importance]_vars

C15_Witness ==
    /\ Completed
    /\ section = "Churn Impact Simulator"
    /\ Signals # sort_values(Signals)
    /\ Len(view.selected_df) = Len(Signals)
    /\ \A i \in 1..Len(view.selected_df) :
          /\ "simulated_impact" \in DOMAIN view.selected_df[i]
          /\ "simulated_impact" \notin DOMAIN Signals[i]

\* the simulator of the other direction
OtherSimulator(s) == IF s = "Event Impact Simulator"
                     THEN "Churn Impact Simulator"
                     ELSE "Event Impact Simulator"

\* C16: on the same signals table, selection and uplift, the Churn simulator
\* is the sign-inverted Event simulator: the rows are the same in the same
\* order, every RISK_REDUCTION simulated_impact is the negation of the
\* GROWTH one, positive_sum(RISK) = -negative_sum(GROWTH), negative_sum(RISK)
\* = -positive_sum(GROWTH), net_effect(RISK) = -net_effect(GROWTH), and the
\* confidence is the same.
C16_ChurnIsInvertedEvent ==
    Completed =>
        LET other == Simulator(version, OtherSimulator(section), Signals,
                               multiselect, slider)
            growth == IF section = "Event Impact Simulator" THEN view
                      ELSE other
            risk == IF section = "Event Impact Simulator" THEN other
                    ELSE view
        IN  /\ ~other.halted
            /\ other.section = OtherSimulator(section)
            /\ FeatureList(risk.selected_df) = FeatureList(growth.selected_df)
            /\ \A i \in 1..Len(risk.selected_df) :
                  /\ risk.selected_df[i].coefficient =
                        growth.selected_df[i].coefficient
                  /\ risk.selected_df[i].simulated_impact =
                        DyNeg(growth.selected_df[i].simulated_impact)
            /\ risk.positive_sum = DyNeg(growth.negative_sum)
            /\ risk.negative_sum = DyNeg(growth.positive_sum)
            /\ risk.net_effect = DyNeg(growth.net_effect)
            /\ risk.confidence = growth.confidence

C16_Witness ==
    /\ Completed
    /\ section = "Churn Impact Simulator"
    /\ Len(view.selected_df) >= 3
    /\ IsPositive(view.positive_sum)
    /\ IsNegative(view.negative_sum)
    /\ IsPositive(view.net_effect)

\* C17: in the Churn simulator of v2 and of v3, a selection whose retained
\* coefficients are all positive has a negative net_effect and is shown the
\* warning ("limited impact" / "weak predictors"), never the success message
\* ("reduce churn risk"); the single signal inactivity_days with coefficient
\* 0.50 at uplift 10% has simulated_impact -0.05.
C17_PositiveChurnCoefficients ==
    (/\ Completed
     /\ section = "Churn Impact Simulator"
     /\ \A i \in 1..Len(view.selected_df) :
           IsPositive(view.selected_df[i].coefficient)) =>
        /\ IsNegative(view.net_effect)
        /\ view.positive_sum = DyZero
        /\ view.interpretation = "warning"
        /\ (Signals = ExampleChurnSignals /\ slider = 10) =>
              /\ Len(view.selected_df) = 1
              /\ view.selected_df[1].simulated_impact = FDiv(-5, 100)
              /\ view.net_effect = FDiv(-5, 100)

C17_Witness ==
    /\ Completed
    /\ version = "v2"
    /\ section = "Churn Impact Simulator"
    /\ Signals = ExampleChurnSignals
    /\ multiselect = <<"inactivity_days">>
    /\ slider = 10
    /\ view.interpretation = "warning"

\* the run of the spec's example: the example table, paywall_view and
\* app_open selected in either order, uplift 20%, direction GROWTH
ExampleRun ==
    /\ Completed
    /\ section = "Event Impact Simulator"
    /\ Signals = ExampleSignals
    /\ Range(multiselect) = {"paywall_view", "app_open"}
    /\ slider = 20

\* the float x is the decimal num / den up to 2^-50 of it
IsDecimal(x, num, den) ==
    Within(DyMul(x, DyOfInt(den)), DyOfInt(num), 50, DyAbs(DyOfInt(num)))

\* C18 as stated: the example run yields the simulated impacts [0.08, -0.02]
\* in that order, positive_sum 0.08, negative_sum -0.02 and net_effect 0.06.
C18_Original ==
    ExampleRun =>
        /\ FeatureList(view.selected_df) = <<"paywall_view", "app_open">>
        /\ Impacts = <<FDiv(8, 100), FDiv(-2, 100)>>
        /\ view.positive_sum = FDiv(8, 100)
        /\ view.negative_sum = FDiv(-2, 100)
        /\ view.net_effect = FDiv(6, 100)

\* C18 as amended: the example run lists paywall_view then app_open with
\* the simulated impacts 0.08 and -0.02, positive_sum 0.08, negative_sum
\* -0.02 and net_effect 0.06 up to float rounding (within 2^-50 of each
\* value); the floats themselves are 0.4 * 0.2 and -0.1 * 0.2, one unit in
\* the last place away from the floats 0.08 and -0.02.
C18_ExampleUpToRounding ==
    ExampleRun =>
        /\ FeatureList(view.selected_df) = <<"paywall_view", "app_open">>
        /\ Len(Impacts) = 2
        /\ IsDecimal(Impacts[1], 8, 100)
        /\ IsDecimal(Impacts[2], -2, 100)
        /\ Impacts[1] = FMul(FDiv(4, 10), FDiv(2, 10))
        /\ Impacts[2] = FMul(FDiv(-1, 10), FDiv(2, 10))
        /\ view.positive_sum = Impacts[1]
        /\ view.negative_sum = Impacts[2]
        /\ IsDecimal(view.net_effect, 6, 100)
        /\ Impacts[1] # FDiv(8, 100)
        /\ Impacts[2] # FDiv(-2, 100)
        /\ view.net_effect # FDiv(6, 100)

C18_Witness ==
    /\ ExampleRun
    /\ version = "v3"
    /\ multiselect = <<"app_open", "paywall_view">>
    /\ IsPositive(view.net_effect)

----------------------------------------------------------------------------
(* Sessions whose signals file lacks a column *)

\* read_csv of a file written without the column col
DropColumn(df, col) ==
    [i \in 1..Len(df) |-> [c \in DOMAIN df[i] \ {col} |-> df[i][c]]]

\* one of the two signals tables lacks its feature or coefficient column
BrokenDatasets ==
    {[fi |-> DropColumn(ExampleSignals, col),
      ci |-> SubSeq(RefChurnImportance, 1, 2)] :
        col \in {"feature", "coefficient"}}
    \cup {[fi |-> ExampleSignals, ci |-> DropColumn(ExampleChurnSignals, col)] :
        col \in {"feature", "coefficient"}}

BrokenInit ==
    /\ version \in Versions
    /\ \E d \in BrokenDatasets :
          /\ csv = [fi |-> d.fi, ci |-> d.ci]
          /\ feature_importance = d.fi
          /\ churn_importance = d.ci
    /\ section = Sections[1]
    /\ multiselect = <<>>
    /\ slider = SliderDefault
    /\ kept = NoWidgets
    /\ top_n = TopNDefault
    /\ view = Script(version, section, feature_importance, churn_importance,
                     multiselect, slider)
    /\ conf = NoConf

BrokenSpec == BrokenInit /\ [][Next]_vars

\* the current section is a simulator whose table lacks a column
MissingColumn ==
    /\ IsSimulator(section)
    /\ ~HasColumns(SignalsOf(section, feature_importance, churn_importance))

\* C19: when the signals table lacks the coefficient or the feature column,
\* the simulator run ends with the exception right after the header: no
\* widget, no simulated impact, sum, net effect or confidence is shown, no
\* coefficient is substituted, and the footer is not reached.
C19_MissingColumnFails ==
    MissingColumn =>
        /\ view = Failed(section)
        /\ view.error = "KeyError"
        /\ DOMAIN view \cap Results = {}
        /\ view.rendered = <<"header", "exception">>
        /\ multiselect = <<>>

C19_Witness ==
    /\ section = "Churn Impact Simulator"
    /\ "coefficient" \notin Columns(churn_importance)
    /\ "feature" \in Columns(churn_importance)
    /\ "error" \in DOMAIN view

\* the same for an Event table without its feature column
C19_WitnessFeature ==
    /\ section = "Event Impact Simulator"
    /\ "feature" \notin Columns(feature_importance)
    /\ "error" \in DOMAIN view

\* a run that differs from the current one in everything but the number of
\* selected names: the other simulator (other direction), a one-row table
\* with another coefficient, another uplift, and a selection of which one
\* name only is a row of the table
OtherUplift(uplift) == IF uplift = SliderMax THEN SliderMin ELSE SliderMax

OtherSelection(n) == <<"inactivity_days">> \o SubSeq(Features, 1, n - 1)

OtherRun ==
    Simulate(version, OtherSimulator(section), ExampleChurnSignals,
             OtherSelection(Len(multiselect)), OtherUplift(slider))

\* C20: the confidence and the 'Selected Behaviors' count of a simulation
\* are those of the number of names in the multiselect; a run with the same
\* number of names but other coefficients, another uplift, the other
\* direction and fewer retained rows shows the same confidence, band and
\* count.
C20_ConfidenceByCountOnly ==
    Completed =>
        LET other == OtherRun
        IN  /\ view.n_selected = Len(multiselect)
            /\ view.confidence = compute_confidence(version, Len(multiselect))
            /\ other.uplift # view.uplift
            /\ Len(other.selected_df) = 1
            /\ other.n_selected = view.n_selected
            /\ other.confidence = view.confidence
            /\ other.band = view.band

C20_Witness ==
    /\ Completed
    /\ Len(multiselect) = 3
    /\ Len(view.selected_df) = 3
    /\ Len(OtherRun.selected_df) = 1
    /\ OtherRun.net_effect # view.net_effect
    /\ OtherRun.confidence = view.confidence

\* C21: in v3 every completed simulation has confidence >= 60.0 and never
\* the low band: one selected name gives 60.0 and the moderate band, two or
\* more give at least 70.0 and the high band; the same holds of the v3
\* function and guide for every count from 1 to MaxN.
C21_V3NeverLow ==
    /\ (Completed /\ version = "v3") =>
          /\ view.confidence >= 600
          /\ view.band # "low"
          /\ Len(multiselect) = 1 =>
                view.confidence = 600 /\ view.band = "moderate"
          /\ Len(multiselect) >= 2 =>
                view.confidence >= 700 /\ view.band = "high"
    /\ \A n \in 1..MaxN :
          ConfidenceGuide("v3", compute_confidence("v3", n)) =
              IF n = 1 THEN "moderate" ELSE "high"

C21_Witness ==
    /\ Completed
    /\ version = "v3"
    /\ Len(multiselect) = 2
    /\ view.confidence = 700
    /\ view.band = "high"

\* the moderate band of one selected name in v3
C21_WitnessModerate ==
    /\ Completed
    /\ version = "v3"
    /\ Len(multiselect) = 1
    /\ view.band = "moderate"

\* C22: in v2 every completed simulation has confidence 12 + 8 * min(n, 5)
\* for n selected names, at most 52.0, and never the high band: 1 to 3
\* names give the low band, 4 or more the moderate band; the same holds of
\* the v2 call with the default data size for every count from 1 to MaxN.
C22_V2NeverHigh ==
    /\ (Completed /\ version = "v2") =>
          /\ view.confidence = 10 * (12 + 8 * Min(Len(multiselect), 5))
          /\ view.confidence <= 520
          /\ view.band # "high"
          /\ view.band = IF Len(multiselect) <= 3 THEN "low" ELSE "moderate"
    /\ \A n \in 1..MaxN :
          /\ compute_confidence("v2", n) = 10 * (12 + 8 * Min(n, 5))
          /\ ConfidenceGuide("v2", compute_confidence("v2", n)) =
                IF n <= 3 THEN "low" ELSE "moderate"

C22_Witness ==
    /\ Completed
    /\ version = "v2"
    /\ Len(multiselect) = 4
    /\ view.confidence = 440
    /\ view.band = "moderate"

\* the low band of three selected names in v2
C22_WitnessLow ==
    /\ Completed
    /\ version = "v2"
    /\ Len(multiselect) = 3
    /\ view.confidence = 360
    /\ view.band = "low"

\* some retained record has a strictly positive / strictly negative impact
HasPositiveImpact == \E i \in 1..Len(Impacts) : IsPositive(Impacts[i])

HasNegativeImpact == \E i \in 1..Len(Impacts) : IsNegative(Impacts[i])

\* C23 as stated: in v2 the mixed branch is shown only when the retained
\* records have both a strictly positive and a strictly negative impact, the
\* strong-drivers branch iff a positive and no negative impact exists, and
\* the weak-predictor branch iff a negative and no positive impact exists.
C23_Original ==
    (Completed /\ version = "v2") =>
        /\ view.interpretation = "info" =>
              HasPositiveImpact /\ HasNegativeImpact
        /\ view.interpretation = "success" <=>
              HasPositiveImpact /\ ~HasNegativeImpact
        /\ view.interpretation = "warning" <=>
              HasNegativeImpact /\ ~HasPositiveImpact

\* C23 as amended: in v2 the strong-drivers branch is shown iff a positive
\* and no negative impact exists, the weak-predictor branch iff a negative
\* and no positive impact exists, and the mixed branch in every other case:
\* when impacts of both signs exist, and also when every retained impact is
\* zero.
C23_ThreeWayWithZero ==
    (Completed /\ version = "v2") =>
        /\ view.interpretation \in {"success", "warning", "info"}
        /\ view.interpretation = "success" <=>
              HasPositiveImpact /\ ~HasNegativeImpact
        /\ view.interpretation = "warning" <=>
              HasNegativeImpact /\ ~HasPositiveImpact
        /\ view.interpretation = "info" <=>
              \/ HasPositiveImpact /\ HasNegativeImpact
              \/ ~HasPositiveImpact /\ ~HasNegativeImpact
        /\ IsPositive(view.positive_sum) <=> HasPositiveImpact
        /\ IsNegative(view.negative_sum) <=> HasNegativeImpact

\* the mixed message on a selection whose impacts are all zero
C23_Witness ==
    /\ Completed
    /\ version = "v2"
    /\ Len(Impacts) >= 1
    /\ ~HasPositiveImpact
    /\ ~HasNegativeImpact
    /\ view.interpretation = "info"

\* the mixed message on impacts of both signs
C23_WitnessMixed ==
    /\ Completed
    /\ version = "v2"
    /\ HasPositiveImpact
    /\ HasNegativeImpact
    /\ view.interpretation = "info"

\* a completed run of v2's Event simulator, which has both blocks
TwoBlocks ==
    /\ Completed
    /\ version = "v2"
    /\ section = "Event Impact Simulator"

\* C24: in v2's Event simulator the two "What this means" blocks of one run
\* agree: when the first shows the all-positive success message the second
\* shows its success message (total_impact > 0), and when the first shows
\* the all-negative warning the second shows its warning.
C24_BlocksAgree ==
    TwoBlocks =>
        /\ view.interpretation_2 = InterpretTotal(view.total_impact)
        /\ view.interpretation = "success" =>
              /\ IsPositive(view.total_impact)
              /\ view.interpretation_2 = "success"
        /\ view.interpretation = "warning" =>
              /\ IsNegative(view.total_impact)
              /\ view.interpretation_2 = "warning"

C24_Witness ==
    /\ TwoBlocks
    /\ Len(view.selected_df) >= 2
    /\ view.interpretation = "success"
    /\ view.interpretation_2 = "success"

\* both blocks warn on an all-negative selection
C24_WitnessWarning ==
    /\ TwoBlocks
    /\ view.interpretation = "warning"
    /\ view.interpretation_2 = "warning"

\* C25 as stated: in v3, whenever the metric shows 0.0 (the net effect
\* rounded to 3 decimals) the neutral branch is shown, the success branch is
\* shown only when the metric is strictly positive and the warning branch
\* only when it is strictly negative.
C25_Original ==
    (Completed /\ version = "v3") =>
        /\ view.metric = 0 => view.interpretation = "info"
        /\ view.interpretation = "success" => view.metric > 0
        /\ view.interpretation = "warning" => view.metric < 0

\* C25 as amended: in v3 the branch follows the sign of the unrounded net
\* effect (success iff > 0, warning iff < 0, neutral iff = 0) and the metric
\* shows that value rounded to 3 decimals; the two never have opposite
\* signs, a strictly positive (negative) metric goes with success
\* (warning), and a metric of 0.0 goes with any branch: with success or
\* warning when the net effect is non-zero and its float product with 1000
\* is at most 0.5 in magnitude (a net effect of up to about 0.0005).
C25_BranchOnUnrounded ==
    (Completed /\ version = "v3") =>
        /\ view.metric = round(view.net_effect, 3)
        /\ view.interpretation = "success" <=> IsPositive(view.net_effect)
        /\ view.interpretation = "warning" <=> IsNegative(view.net_effect)
        /\ view.interpretation = "info" <=> view.net_effect = DyZero
        /\ view.metric > 0 => view.interpretation = "success"
        /\ view.metric < 0 => view.interpretation = "warning"
        /\ view.interpretation = "info" => view.metric = 0
        /\ (view.metric = 0 /\ view.interpretation # "info") =>
              /\ FloatCmp(FMul(DyAbs(view.net_effect), FloatOfInt(1000)),
                          FDiv(1, 2)) <= 0
              /\ view.net_effect # DyZero

\* a metric of 0.0 under the success message
C25_Witness ==
    /\ Completed
    /\ version = "v3"
    /\ view.metric = 0
    /\ view.interpretation = "success"

\* a metric of 0.0 under the neutral message
C25_WitnessNeutral ==
    /\ Completed
    /\ version = "v3"
    /\ Len(view.selected_df) >= 2
    /\ view.metric = 0
    /\ view.interpretation = "info"

\* the parts of the page that only a completed simulation shows
AfterWarning == {"slider", "metrics", "confidence", "chart", "interpretation",
                 "details", "footer"}

\* the section of the current run reads a signals table that lacks a column
ReadsBrokenTable ==
    \/ IsSimulator(section) /\ ~HasColumns(Signals)
    \/ /\ ChartsSignals(section)
       /\ ~HasColumns(ChartedSignals(section, feature_importance,
                                     churn_importance))

\* C26 as stated: every run renders exactly one section, the one picked in
\* the sidebar, starting with its header; the footer is rendered once, last,
\* on every run except a simulator run halted by an empty selection, which
\* ends at the warning and shows no result, interpretation, details table
\* or footer.
C26_Original ==
    /\ view.section = section
    /\ Cardinality({s \in Range(Sections) : view.section = s}) = 1
    /\ view.rendered[1] = "header"
    /\ "error" \notin DOMAIN view
    /\ view.halted <=> (IsSimulator(section) /\ multiselect = <<>>)
    /\ ~view.halted =>
          /\ view.rendered[Len(view.rendered)] = "footer"
          /\ Cardinality({i \in 1..Len(view.rendered) :
                              view.rendered[i] = "footer"}) = 1
    /\ view.halted =>
          /\ view.rendered[Len(view.rendered)] = "warning"
          /\ Range(view.rendered) \cap AfterWarning = {}
          /\ DOMAIN view \cap Results = {}

\* C26 as amended: every run that reaches the sidebar renders exactly one
\* section, the one picked there, starting with its header; the footer is
\* rendered once, last, on every run except two kinds: a simulator run
\* halted by an empty selection, which ends at the warning, and a run in
\* which the section raises an uncaught exception (it reads a signals table
\* that lacks a column), which ends at the exception; neither shows a
\* result, an interpretation, a details table or the footer.
C26_OneSectionThenFooter ==
    /\ view.section = section
    /\ Cardinality({s \in Range(Sections) : view.section = s}) = 1
    /\ view.rendered[1] = "header"
    /\ "error" \in DOMAIN view <=> ReadsBrokenTable
    /\ view.halted <=>
          (IsSimulator(section) /\ ~ReadsBrokenTable /\ multiselect = <<>>)
    /\ (~view.halted /\ "error" \notin DOMAIN view) =>
          /\ view.rendered[Len(view.rendered)] = "footer"
          /\ Cardinality({i \in 1..Len(view.rendered) :
                              view.rendered[i] = "footer"}) = 1
    /\ view.halted =>
          /\ view.rendered[Len(view.rendered)] = "warning"
          /\ Range(view.rendered) \cap AfterWarning = {}
          /\ DOMAIN view \cap Results = {}
    /\ "error" \in DOMAIN view =>
          /\ ~view.halted
          /\ view.rendered[Len(view.rendered)] = "exception"
          /\ Range(view.rendered) \cap AfterWarning = {}
          /\ DOMAIN view \cap Results = {}

\* a charting section whose table lacks a column: content, then the
\* exception, and no footer
C26_Witness ==
    /\ ChartsSignals(section)
    /\ "error" \in DOMAIN view
    /\ view.rendered = <<"header", "content", "exception">>

\* a halted run of a simulator
C26_WitnessHalted ==
    /\ IsSimulator(section)
    /\ view.halted
    /\ "footer" \notin Range(view.rendered)

\* a section other than the simulators, with its footer
C26_WitnessPage ==
    /\ section = "Targeting Simulator"
    /\ view.rendered = <<"header", "content", "footer">>

\* a Targeting Simulator run that shows a candidate list
HasList == conf.variant = "targeting" /\ conf.page.has_list

\* the users of the table that pass the filter
EligibleUsers ==
    {r \in Range(conf.user_features) : Eligible(r, conf.threshold)}

\* C27: in the Targeting Simulator (v2, v3), for every threshold and cap,
\* the candidate list holds only free users of the table whose probability
\* is at least the threshold, each once; it has min(max_users, number of
\* eligible users) rows in non-increasing probability order; no eligible
\* user left out has a strictly higher probability than a listed one; and
\* the 'Target Users' metric is the number of rows listed and downloadable,
\* which are the same users.
C27_TargetList ==
    HasList =>
        LET c == conf.page.candidates
        IN  /\ \A i \in 1..Len(c) :
                  /\ c[i] \in Range(conf.user_features)
                  /\ c[i].isPremiumUserFlag = 0
                  /\ DyCmp(c[i].conversion_probability, conf.threshold) >= 0
            /\ Cardinality(Range(c)) = Len(c)
            /\ Len(c) <= conf.max_users
            /\ Len(c) = Min(conf.max_users, Cardinality(EligibleUsers))
            /\ \A i \in 1..(Len(c) - 1) :
                  DyCmp(c[i].conversion_probability,
                        c[i + 1].conversion_probability) >= 0
            /\ \A r \in EligibleUsers \ Range(c) : \A i \in 1..Len(c) :
                  DyCmp(r.conversion_probability,
                        c[i].conversion_probability) <= 0
            /\ conf.page.target_users = Len(conf.page.listed)
            /\ conf.page.target_users = Len(conf.page.download)
            /\ \A i \in 1..Len(c) :
                  /\ conf.page.listed[i].user_id = c[i].user_id
                  /\ conf.page.listed[i].conversion_probability =
                        c[i].conversion_probability
                  /\ conf.page.download[i] = c[i]

\* the cap cuts the list, with a tie at the cut
C27_Witness ==
    /\ HasList
    /\ conf.max_users = 10
    /\ Len(conf.page.candidates) = 10
    /\ \E r \in EligibleUsers \ Range(conf.page.candidates) :
          r.conversion_probability =
              conf.page.candidates[10].conversion_probability
    /\ conf.page.target_users = 10

\* premium users and users below the threshold are filtered out
C27_WitnessFilter ==
    /\ HasList
    /\ Len(conf.page.candidates) >= 2
    /\ \E r \in Range(conf.user_features) : r.isPremiumUserFlag = 1
    /\ \E r \in Range(conf.user_features) :
          /\ r.isPremiumUserFlag = 0
          /\ r \notin EligibleUsers

----------------------------------------------------------------------------
(* Market Trend Intelligence: the trend message *)

\* the rows of the demand table inside the selected window, in file order
WindowRows ==
    SelectSeq(conf.daily_demand,
              LAMBDA row : row.payment_date >= conf.lo
                           /\ row.payment_date <= conf.hi)

\* the mean of the last 7 rows exceeds the mean of the first 7 rows, as
\* exact fractions
RecentExceedsEarlier(rows) ==
    LET last == tail(rows, TrendRows)
        first == head(rows, TrendRows)
    IN  /\ rows # <<>>
        /\ IntSumFrom(last, 1) * Len(first) > IntSumFrom(first, 1) * Len(last)

\* C28: the trend message is the "upward momentum" one exactly when the mean
\* of the last 7 rows of the filtered window is strictly greater than the
\* mean of its first 7 rows; a window of 7 or fewer rows always shows the
\* flat message, whatever the demand values.
C28_TrendMessage ==
    conf.variant = "trend" =>
        /\ conf.page.filtered = WindowRows
        /\ (conf.page.trend_msg = "upward") <=> RecentExceedsEarlier(WindowRows)
        /\ conf.page.trend_msg \in {"upward", "flat"}
        /\ Len(WindowRows) <= TrendRows => conf.page.trend_msg = "flat"

\* a window of 2 to 7 rows whose demand rises from its first to its last
\* row, with the flat message
C28_Witness ==
    /\ conf.variant = "trend"
    /\ Len(conf.page.filtered) >= 2
    /\ Len(conf.page.filtered) <= TrendRows
    /\ conf.page.filtered[Len(conf.page.filtered)].premium_subscriptions
         > conf.page.filtered[1].premium_subscriptions
    /\ conf.page.trend_msg = "flat"

\* a window of 8 to 13 rows, whose first and last 7 rows overlap, with the
\* upward message
C28_WitnessUpward ==
    /\ conf.variant = "trend"
    /\ Len(conf.page.filtered) > TrendRows
    /\ Len(conf.page.filtered) < 2 * TrendRows
    /\ conf.page.trend_msg = "upward"

\* an empty window: both means are NaN and the message is the flat one
C28_WitnessEmpty ==
    /\ conf.variant = "trend"
    /\ conf.page.filtered = <<>>
    /\ conf.page.recent_avg.nan
    /\ conf.page.trend_msg = "flat"

====
